---- MODULE Spec2Model ----
(***************************************************************************)
(* The cell-based reactive store of react-native-nitro-state:              *)
(* nitrostate::HybridNitroState (the registry), AtomCore (value cells),    *)
(* ComputedCore (derived cells) and BatchManager (the batch coordinator).  *)
(*                                                                         *)
(* Every thread is a stack of frames.  An API call pushes a frame; a call  *)
(* into user code (a subscriber callback, a compute function) pushes a     *)
(* frame too, and user code may call back into the store.  A frame whose   *)
(* pc is "ret" has finished and holds its result until Return pops it.     *)
(* A step that runs entirely under std::lock_guard and calls no user code  *)
(* is one atomic action.                                                   *)
(***************************************************************************)
EXTENDS Integers, Sequences, FiniteSets, TLC

\* ---------------------------------------------------------------- bounds
MaxSubs == 2        \* subscriptions ever made on one atom (nextId_ <= MaxSubs)
MaxBatchDepth == 2  \* startBatch is not called at a depth of MaxBatchDepth
MaxNest == 1        \* nested subscriber callbacks that still call back into the store
MaxWrites == 2      \* setAtomValue calls per writer thread (SpecWriters)
MaxUnderflow == 1   \* endBatch is not called at a depth of -MaxUnderflow
MaxCells == 2       \* AtomCore objects ever constructed for one key
MaxIds == 3             \* subscriptions per cell in SpecSubscriptions
MaxPending == 2         \* entries of the map-based store's pending vector

Keys == {"a", "b"}          \* atom keys
CKeys == {"c"}              \* computed keys
Values == {"v1", "v2"}      \* opaque jsi values: two objects
Threads == {"t1", "t2"}
JS == "t1"                  \* the JS thread

NoValue == "NoValue"        \* jsi::Value::undefined(), where a call returns no value

\* std::unordered_map: a function whose domain is the set of keys present.
Insert(m, k, x) == [y \in DOMAIN m \cup {k} |-> IF y = k THEN x ELSE m[y]]
\* An erase that leaves the map as it was.
EraseNothing(m, k) == m

Erase(m, k) == [y \in DOMAIN m \ {k} |-> m[y]]
EmptyMap == [y \in {} |-> NoValue]

\* ----------------------------------------------------------------- state
VARIABLES
  atoms,                \* HybridNitroState::atoms_ : key -> AtomCore
  computed,             \* HybridNitroState::computed_ : key -> ComputedCore
  computeFns,           \* HybridNitroState::computeFns_ : key -> compute function
  cells,                \* per key, the AtomCore objects createAtom has constructed for it
  batchDepth,           \* BatchManager::batchDepth_
  pendingNotifications, \* BatchManager::pendingNotifications_
  held,                 \* the mutexes each thread owns
  stack,                \* each thread's call stack
  handles,              \* the unsubscribe functions subscribeAtom has returned to JS
  mapStore,             \* the members of the map-based HybridNitroState
  mapHandles,           \* the unsubscribe functions its subscribeAtom has returned to JS
  begun,                \* history: successful setAtomValue calls each thread has begun
  delivered,            \* history: invocations of the callback of each subscription
  fresh                 \* history: per computed, "none" (never read), "valid" (read, no
                        \* dependency written since) or "stale" (a dependency written)

storeVars == <<atoms, computed, computeFns, cells>>
batchVars == <<batchDepth, pendingNotifications>>
mapVars == <<mapStore, mapHandles>>
histVars == <<begun, delivered, fresh>>
vars == <<atoms, computed, computeFns, cells, batchDepth, pendingNotifications, held, stack,
          handles, mapStore, mapHandles, begun, delivered, fresh>>

\* ----------------------------------------------------------------- locks
RegistryLock == "registry"          \* HybridNitroState::mutex_
BatchLock == "batch"                \* BatchManager::mutex_
AtomLock(k) == "atom:" \o k         \* AtomCore::mutex_ of the cell of key k

\* No other thread owns a mutex of L: std::mutex::lock does not wait for another thread.
Acquirable(t, L) == \A u \in Threads \ {t} : held[u] \cap L = {}
\* The thread already owns a mutex of L: locking it again is undefined behaviour.
SelfHeld(t, L) == held[t] \cap L # {}
\* What a build does when a thread locks a std::mutex it owns: lock() never returns,
\* or it throws std::system_error (resource_deadlock_would_occur).
RelockOutcomes == {"deadlock", "system_error"}

\* -------------------------------------------------------------- pointers
\* An AtomCore* is the pair of the key the cell was constructed for and its number
\* among the cells constructed for that key; the registry owns the last of them, if
\* any.  A pointer to a cell the registry has erased points to a destroyed object.
NullCell == <<>>
Cell(k) == <<k, cells[k]>>
Live(p) == p[1] \in DOMAIN atoms /\ cells[p[1]] = p[2]
\* What a build does when a member function is called on a destroyed AtomCore: the
\* process stops, or nothing visible happens, or the call acts on the cell that was
\* constructed for the key since and took the storage.
Destroyed == {"crash", "nothing", "reused"}

\* ---------------------------------------------------------------- frames
Frame(op, key, val) ==
  [op |-> op, pc |-> "ret", key |-> key, val |-> val, res |-> "ok", out |-> NoValue,
   batching |-> FALSE, cbs |-> <<>>, todo |-> {}, snap |-> <<>>, inv |-> <<>>,
   ncomp |-> 0, flushed |-> FALSE, was |-> "none", atom |-> NullCell]

Depth(t) == Len(stack[t])
Top(t) == stack[t][Len(stack[t])]
Caller(t) == stack[t][Len(stack[t]) - 1]
Push(t, f) == stack' = [stack EXCEPT ![t] = Append(@, f)]
SetTop(t, f) == stack' = [stack EXCEPT ![t] = [@ EXCEPT ![Len(@)] = f]]
\* Leave f in place of the frame n frames below the top, and pop the frames above it.
Unwind(t, n, f) == stack' = [stack EXCEPT ![t] = Append(SubSeq(@, 1, Len(@) - n - 1), f)]
Running(t, op, pc) == Depth(t) > 0 /\ Top(t).op = op /\ Top(t).pc = pc

\* The call locks a mutex its thread owns (f is the frame of the call).
Relock(f) ==
  {[f EXCEPT !.pc = "deadlock", !.res = "none"], [f EXCEPT !.pc = "ret", !.res = "system_error"]}

\* The places where code of the JS side calls the store: the top level of the JS
\* program, the body of a subscriber callback, and the body of a compute function,
\* which reads atom k next.
AtJs(t) == Depth(t) = 0
Nesting(t) == Cardinality({i \in 1..Depth(t) : stack[t][i].op = "callback"})
InCallback(t) == Running(t, "callback", "body") /\ Nesting(t) <= MaxNest
InCompute(t, k) == Running(t, "compute", "body") /\ Top(t).cbs # <<>> /\ Head(Top(t).cbs) = k

\* ------------------------------------------------------------- AtomCore
\* AtomCore::AtomCore
NewAtom(v) == [value |-> v, dirty |-> FALSE, subscribers |-> <<>>, nextId |-> 0]

\* The std::function that subscribeAtom stores for subscription id of the cell p: it
\* calls the callback of the JS side.
JsCallback(p, id) == <<"js", p[1], id, p[2]>>
\* The std::function that addDependency stores for dependency i of computed c: it
\* calls markDirty().
MarkDirtyCallback(c, i) == <<"markDirty", c, i>>

\* The kinds of jsi::Value.  The values of Values are objects; a value of another
\* kind is written as its kind.
Undefined == "undefined"
JsValues == Values \cup {Undefined, "null", "bool", "number", "string", "symbol", "bigint"}
Kind(v) == IF v \in Values THEN "object" ELSE v

\* AtomCore::get: the copy made of the stored value, kind by kind; a value of none of
\* the kinds tested for falls through to jsi::Value::undefined().
AtomGet(a) ==
  IF Kind(a.value) \in {Undefined, "null", "bool", "number", "string", "object"}
  THEN a.value
  ELSE Undefined

\* AtomCore::set, the block under the lock
AtomStore(a, v) == [a EXCEPT !.value = v, !.dirty = TRUE]

\* AtomCore::subscribe
AtomSubscribe(a, cb) ==
  [a EXCEPT !.subscribers = Append(@, [id |-> a.nextId, cb |-> cb]),
            !.nextId = @ + 1]

RECURSIVE RemoveId(_, _)
RemoveId(subs, id) ==
  IF subs = <<>> THEN <<>>
  ELSE IF Head(subs).id = id THEN RemoveId(Tail(subs), id)
  ELSE <<Head(subs)>> \o RemoveId(Tail(subs), id)

\* An unsubscribe that removes every subscription up to the id given.
AtomUnsubscribeUpTo(a, id) ==
  [a EXCEPT !.subscribers = SelectSeq(@, LAMBDA e : e.id > id)]

\* AtomCore::unsubscribe
AtomUnsubscribe(a, id) == [a EXCEPT !.subscribers = RemoveId(@, id)]

\* The callbacks of a subscriber list, in its order.
Callbacks(subs) == [i \in 1..Len(subs) |-> subs[i].cb]

\* notify() that walks the subscriber list from its end.
CallbacksCopyReversed(a) ==
  IF ~a.dirty THEN <<>>
  ELSE [i \in 1..Len(a.subscribers) |-> a.subscribers[Len(a.subscribers) + 1 - i].cb]

\* AtomCore::notify, the block under the lock: nothing if the cell is not dirty, else
\* a copy of the callbacks.
CallbacksCopy(a) == IF ~a.dirty THEN <<>> ELSE Callbacks(a.subscribers)

\* AtomCore::markClean
MarkClean(a) == [a EXCEPT !.dirty = FALSE]

\* ------------------------------------------------- registry: atomic calls
\* A createAtom that replaces the atom of a key already taken.
createAtomOverwrites(t, k, v) ==
  /\ Acquirable(t, {RegistryLock})
  /\ cells[k] < MaxCells
  /\ atoms' = Insert(atoms, k, NewAtom(v))
  /\ cells' = [cells EXCEPT ![k] = @ + 1]
  /\ Push(t, Frame("createAtom", k, v))
  /\ UNCHANGED <<computed, computeFns, batchVars, held, handles>>

\* HybridNitroState::createAtom
createAtom(t, k, v) ==
  /\ Acquirable(t, {RegistryLock})
  /\ k \notin DOMAIN atoms => cells[k] < MaxCells
  /\ LET f == Frame("createAtom", k, v) IN
     IF SelfHeld(t, {RegistryLock})
     THEN /\ \E g \in Relock(f) : Push(t, g)
          /\ UNCHANGED <<atoms, cells>>
     ELSE IF k \in DOMAIN atoms
     THEN /\ Push(t, [f EXCEPT !.res = "AlreadyExists"])
          /\ UNCHANGED <<atoms, cells>>
     ELSE /\ atoms' = Insert(atoms, k, NewAtom(v))
          /\ cells' = [cells EXCEPT ![k] = @ + 1]
          /\ Push(t, f)
  /\ UNCHANGED <<computed, computeFns, batchVars, held, handles>>

\* HybridNitroState::getAtomValue
getAtomValue(t, k) ==
  /\ Acquirable(t, {RegistryLock})
  /\ k \in DOMAIN atoms => Acquirable(t, {AtomLock(k)})
  /\ LET f == Frame("getAtomValue", k, NoValue) IN
     IF SelfHeld(t, {RegistryLock}) THEN \E g \in Relock(f) : Push(t, g)
     ELSE IF k \notin DOMAIN atoms THEN Push(t, [f EXCEPT !.res = "NotFound"])
     ELSE IF SelfHeld(t, {AtomLock(k)}) THEN \E g \in Relock(f) : Push(t, g)
     ELSE Push(t, [f EXCEPT !.out = AtomGet(atoms[k])])
  /\ UNCHANGED <<storeVars, batchVars, held, handles>>

\* The subscription ids of the cell of k, if any, are capped at n.
IdsBelow(k, n) == k \in DOMAIN atoms => atoms[k].nextId < n

\* HybridNitroState::subscribeAtom: the returned unsubscribe function captures the
\* cell and the subscription id.
subscribeAtom(t, k) ==
  /\ Acquirable(t, {RegistryLock})
  /\ k \in DOMAIN atoms => Acquirable(t, {AtomLock(k)})
  /\ LET f == Frame("subscribeAtom", k, NoValue) IN
     IF SelfHeld(t, {RegistryLock})
     THEN /\ \E g \in Relock(f) : Push(t, g)
          /\ UNCHANGED <<atoms, handles>>
     ELSE IF k \notin DOMAIN atoms
     THEN /\ Push(t, [f EXCEPT !.res = "NotFound"])
          /\ UNCHANGED <<atoms, handles>>
     ELSE IF SelfHeld(t, {AtomLock(k)})
     THEN /\ \E g \in Relock(f) : Push(t, g)
          /\ UNCHANGED <<atoms, handles>>
     ELSE /\ atoms' = [atoms EXCEPT ![k] = AtomSubscribe(@, JsCallback(Cell(k), atoms[k].nextId))]
          /\ handles' = handles \cup {<<Cell(k), atoms[k].nextId>>}
          /\ Push(t, [f EXCEPT !.val = atoms[k].nextId, !.atom = Cell(k)])
  /\ UNCHANGED <<computed, computeFns, cells, batchVars, held>>

\* The unsubscribe function h = <<atom, subscriptionId>> returned by subscribeAtom:
\* atom->unsubscribe(subscriptionId), on the captured pointer.
unsubscribe(t, h) ==
  /\ h \in handles
  /\ Live(h[1]) => Acquirable(t, {AtomLock(h[1][1])})
  /\ LET k == h[1][1]
         f == [Frame("unsubscribe", k, h[2]) EXCEPT !.atom = h[1]] IN
     IF ~Live(h[1])
     THEN \E d \in Destroyed :
            /\ d = "reused" => k \in DOMAIN atoms
            /\ atoms' = IF d = "reused" THEN [atoms EXCEPT ![k] = AtomUnsubscribe(@, h[2])]
                        ELSE atoms
            /\ Push(t, IF d = "crash" THEN [f EXCEPT !.pc = "crash", !.res = "none"] ELSE f)
     ELSE IF SelfHeld(t, {AtomLock(k)})
     THEN /\ \E g \in Relock(f) : Push(t, g)
          /\ UNCHANGED atoms
     ELSE /\ atoms' = [atoms EXCEPT ![k] = AtomUnsubscribe(@, h[2])]
          /\ Push(t, f)
  /\ UNCHANGED <<computed, computeFns, cells, batchVars, held, handles>>

\* HybridNitroState::deleteAtom: atoms_.erase(key) destroys the AtomCore, if any.
deleteAtom(t, k) ==
  /\ Acquirable(t, {RegistryLock})
  /\ LET f == Frame("deleteAtom", k, NoValue) IN
     IF SelfHeld(t, {RegistryLock})
     THEN /\ \E g \in Relock(f) : Push(t, g)
          /\ UNCHANGED atoms
     ELSE /\ atoms' = Erase(atoms, k)
          /\ Push(t, f)
  /\ UNCHANGED <<computed, computeFns, cells, batchVars, held, handles>>

\* HybridNitroState::hasAtom
hasAtom(t, k) ==
  /\ Acquirable(t, {RegistryLock})
  /\ LET f == Frame("hasAtom", k, NoValue) IN
     IF SelfHeld(t, {RegistryLock}) THEN \E g \in Relock(f) : Push(t, g)
     ELSE Push(t, [f EXCEPT !.out = IF k \in DOMAIN atoms THEN "true" ELSE "false"])
  /\ UNCHANGED <<storeVars, batchVars, held, handles>>

\* The vectors a walk over an unordered_map with the keys S can fill: each key once,
\* in an order the hash table decides.
Listings(S) ==
  {s \in [1..Cardinality(S) -> S] : \A x \in S : \E i \in 1..Cardinality(S) : s[i] = x}

\* A getAtomKeys that lists the keys of the computed with those of the atoms.
getAtomKeysWithComputed(t) ==
  /\ Acquirable(t, {RegistryLock}) /\ ~SelfHeld(t, {RegistryLock})
  /\ \E keys \in Listings(DOMAIN atoms \cup DOMAIN computed) :
       Push(t, [Frame("getAtomKeys", NoValue, NoValue) EXCEPT !.out = keys])
  /\ UNCHANGED <<storeVars, batchVars, held, handles>>

\* HybridNitroState::getAtomKeys
getAtomKeys(t) ==
  /\ Acquirable(t, {RegistryLock})
  /\ LET f == Frame("getAtomKeys", NoValue, NoValue) IN
     IF SelfHeld(t, {RegistryLock}) THEN \E g \in Relock(f) : Push(t, g)
     ELSE \E keys \in Listings(DOMAIN atoms) : Push(t, [f EXCEPT !.out = keys])
  /\ UNCHANGED <<storeVars, batchVars, held, handles>>

\* -------------------------------------------------------- BatchManager
\* BatchManager::startBatch
startBatch(t) ==
  /\ batchDepth < MaxBatchDepth
  /\ Acquirable(t, {BatchLock})
  /\ LET f == Frame("startBatch", NoValue, NoValue) IN
     IF SelfHeld(t, {BatchLock})
     THEN /\ \E g \in Relock(f) : Push(t, g)
          /\ UNCHANGED batchDepth
     ELSE /\ batchDepth' = batchDepth + 1
          /\ Push(t, f)
  /\ UNCHANGED <<storeVars, pendingNotifications, held, handles>>

\* An endBatch that takes the pending set at every depth.
EndBatchLockedAtAnyDepth(depth, pending) ==
  [depth |-> depth - 1, pending |-> {}, atomsToNotify |-> pending]

\* BatchManager::endBatch, the block under the lock: the depth and what is taken
\* from the pending set.
EndBatchLocked(depth, pending) ==
  [depth |-> depth - 1,
   pending |-> IF depth - 1 = 0 THEN {} ELSE pending,
   atomsToNotify |-> IF depth - 1 = 0 THEN pending ELSE {}]

\* BatchManager::endBatch up to the release of the lock.
endBatch(t) ==
  /\ batchDepth > -MaxUnderflow
  /\ Acquirable(t, {BatchLock})
  /\ LET f == Frame("endBatch", NoValue, NoValue)
         e == EndBatchLocked(batchDepth, pendingNotifications) IN
     IF SelfHeld(t, {BatchLock})
     THEN /\ \E g \in Relock(f) : Push(t, g)
          /\ UNCHANGED batchVars
     ELSE /\ batchDepth' = e.depth
          /\ pendingNotifications' = e.pending
          /\ Push(t, [f EXCEPT !.pc = "loop", !.res = "none", !.val = batchDepth,
                               !.snap = pendingNotifications,
                               !.flushed = (e.depth = 0), !.todo = e.atomsToNotify])
  /\ UNCHANGED <<storeVars, held, handles>>

\* BatchManager::endBatch, the loop over atomsToNotify outside the lock:
\* atom->notify() for the next cell.
EndBatchNotify(t) ==
  /\ Running(t, "endBatch", "loop")
  /\ \E p \in Top(t).todo :
       stack' = [stack EXCEPT ![t] =
         Append([@ EXCEPT ![Len(@)] = [Top(t) EXCEPT !.pc = "notify", !.key = p,
                                                    !.todo = @ \ {p}]],
                [Frame("notify", p, NoValue) EXCEPT !.pc = "copy"])]
  /\ UNCHANGED <<storeVars, batchVars, held, handles>>

\* BatchManager::endBatch, one turn of its loop on a cell the registry has destroyed:
\* atom->notify() and atom->markClean() run on the destroyed AtomCore.  The process
\* stops, or nothing visible happens.
EndBatchNotifyDestroyed(t) ==
  /\ Running(t, "endBatch", "loop")
  /\ \E p \in Top(t).todo \ DOMAIN atoms :
       \/ SetTop(t, [Top(t) EXCEPT !.pc = "crash", !.key = p])
       \/ SetTop(t, [Top(t) EXCEPT !.key = p, !.todo = @ \ {p}])
  /\ UNCHANGED <<storeVars, batchVars, held, handles>>

\* BatchManager::endBatch returns.
EndBatchDone(t) ==
  /\ Running(t, "endBatch", "loop")
  /\ Top(t).todo = {}
  /\ SetTop(t, [Top(t) EXCEPT !.pc = "ret", !.res = "ok"])
  /\ UNCHANGED <<storeVars, batchVars, held, handles>>

\* A queueNotification that inserts the cell at any depth.
QueueLockedAtAnyDepth(depth, pending, p) == pending \cup {p}

\* BatchManager::queueNotification, the block under the lock.
QueueLocked(depth, pending, p) == IF depth > 0 THEN pending \cup {p} ELSE pending

\* ------------------------------------------------------ AtomCore::notify
\* A notify() that still owns the cell's lock when it calls the callbacks.
NotifyCopyKeepsLock(t) ==
  /\ Running(t, "notify", "copy")
  /\ Acquirable(t, {AtomLock(Top(t).key)})
  /\ ~SelfHeld(t, {AtomLock(Top(t).key)})
  /\ SetTop(t, [Top(t) EXCEPT !.pc = "loop", !.cbs = CallbacksCopy(atoms[Top(t).key])])
  /\ held' = [held EXCEPT ![t] = @ \cup {AtomLock(Top(t).key)}]
  /\ UNCHANGED <<storeVars, batchVars, handles>>

\* A notify() that clears dirty_ once it has copied the callbacks.
NotifyCopyClearsDirty(t) ==
  /\ Running(t, "notify", "copy")
  /\ Acquirable(t, {AtomLock(Top(t).key)})
  /\ SetTop(t, [Top(t) EXCEPT !.pc = "loop", !.cbs = CallbacksCopy(atoms[Top(t).key])])
  /\ atoms' = [atoms EXCEPT ![Top(t).key] = MarkClean(@)]
  /\ UNCHANGED <<computed, computeFns, cells, batchVars, held, handles>>

\* notify(), the block under the lock.  The lock is released before any callback.
NotifyCopy(t) ==
  /\ Running(t, "notify", "copy")
  /\ Acquirable(t, {AtomLock(Top(t).key)})
  /\ IF SelfHeld(t, {AtomLock(Top(t).key)})
     THEN \/ SetTop(t, [Top(t) EXCEPT !.pc = "deadlock"])
          \/ Unwind(t, 1, [Caller(t) EXCEPT !.pc = "ret", !.res = "system_error"])
     ELSE SetTop(t, [Top(t) EXCEPT !.pc = "loop", !.cbs = CallbacksCopy(atoms[Top(t).key])])
  /\ UNCHANGED <<storeVars, batchVars, held, handles>>

\* notify(), one turn of the loop over callbacksCopy: a callback of the JS side.
NotifyCallJs(t) ==
  /\ Running(t, "notify", "loop")
  /\ Top(t).cbs # <<>>
  /\ Head(Top(t).cbs)[1] = "js"
  /\ stack' = [stack EXCEPT ![t] =
       Append([@ EXCEPT ![Len(@)] = [Top(t) EXCEPT !.cbs = Tail(@),
                                                  !.inv = Append(@, Head(Top(t).cbs))]],
              [Frame("callback", Head(Top(t).cbs)[2], Head(Top(t).cbs)[3])
                 EXCEPT !.pc = "body"])]
  /\ UNCHANGED <<storeVars, batchVars, held, handles>>

\* A markDirty() that leaves dirty_ as it is.
MarkDirtyKeepsFlag(c) == c

\* ComputedCore::markDirty
MarkDirty(c) == [c EXCEPT !.dirty = TRUE]

\* notify(), one turn of the loop: the callback addDependency installed, which calls
\* markDirty() of its computed.
NotifyCallMarkDirty(t) ==
  /\ Running(t, "notify", "loop")
  /\ Top(t).cbs # <<>>
  /\ Head(Top(t).cbs)[1] = "markDirty"
  /\ Head(Top(t).cbs)[2] \in DOMAIN computed
  /\ computed' = [computed EXCEPT ![Head(Top(t).cbs)[2]] = MarkDirty(@)]
  /\ SetTop(t, [Top(t) EXCEPT !.cbs = Tail(@), !.inv = Append(@, Head(Top(t).cbs))])
  /\ UNCHANGED <<atoms, computeFns, cells, batchVars, held, handles>>

\* notify(), one turn of the loop on a callback of its copy whose ComputedCore has been
\* destroyed since the copy was made: the lambda of addDependency calls markDirty()
\* through its dangling `this`.  The process stops, or nothing visible happens.
NotifyCallMarkDirtyDestroyed(t) ==
  /\ Running(t, "notify", "loop")
  /\ Top(t).cbs # <<>>
  /\ Head(Top(t).cbs)[1] = "markDirty"
  /\ Head(Top(t).cbs)[2] \notin DOMAIN computed
  /\ \/ SetTop(t, [Top(t) EXCEPT !.pc = "crash"])
     \/ SetTop(t, [Top(t) EXCEPT !.cbs = Tail(@), !.inv = Append(@, Head(Top(t).cbs))])
  /\ UNCHANGED <<storeVars, batchVars, held, handles>>

\* notify() returns to AtomCore::set and set() to setAtomValue: off the batch path
\* the call is over, on it atom->markClean() follows.
NotifyReturnToSet(t) ==
  /\ Running(t, "notify", "loop")
  /\ Top(t).cbs = <<>>
  /\ Caller(t).op = "setAtomValue"
  /\ LET f == [Caller(t) EXCEPT !.inv = Top(t).inv] IN
     IF f.batching
     THEN /\ atoms' = [atoms EXCEPT ![f.key] = MarkClean(@)]
          /\ Unwind(t, 1, [f EXCEPT !.pc = "queue"])
     ELSE /\ UNCHANGED atoms
          /\ Unwind(t, 1, [f EXCEPT !.pc = "ret", !.res = "ok"])
  /\ UNCHANGED <<computed, computeFns, cells, batchVars, held, handles>>

\* notify() returns to the loop of endBatch, and atom->markClean() follows.
NotifyReturnToEndBatch(t) ==
  /\ Running(t, "notify", "loop")
  /\ Top(t).cbs = <<>>
  /\ Caller(t).op = "endBatch"
  /\ atoms' = [atoms EXCEPT ![Caller(t).key] = MarkClean(@)]
  /\ Unwind(t, 1, [Caller(t) EXCEPT !.pc = "loop", !.inv = @ \o Top(t).inv])
  /\ UNCHANGED <<computed, computeFns, cells, batchVars, held, handles>>

\* ---------------------------------------------------- subscriber callbacks
\* A callback of the JS side returns.
CallbackReturn(t) ==
  /\ Running(t, "callback", "body")
  /\ Unwind(t, 1, Caller(t))
  /\ UNCHANGED <<storeVars, batchVars, held, handles>>

\* An exception leaves notify() and the call that called it: setAtomValue skips
\* markClean and queueNotification, endBatch the rest of atomsToNotify.  n frames
\* lie above the frame of notify().
Throw(t, n, e) ==
  LET api == stack[t][Len(stack[t]) - n - 1]
      nfy == stack[t][Len(stack[t]) - n]
  IN Unwind(t, n + 1, [api EXCEPT !.pc = "ret", !.res = e,
                                  !.inv = IF api.op = "endBatch" THEN @ \o nfy.inv ELSE nfy.inv])

\* A callback of the JS side throws.
CallbackThrows(t) ==
  /\ Running(t, "callback", "body")
  /\ Throw(t, 1, "js_error")
  /\ UNCHANGED <<storeVars, batchVars, held, handles>>

\* The call a callback made into the store returns to it, and the callback returns:
\* normally (it catches what the call threw, if anything), or with that exception.
ReturnToCallback(t) ==
  /\ Depth(t) > 1
  /\ Top(t).pc = "ret"
  /\ Caller(t).op = "callback"
  /\ \/ Unwind(t, 2, stack[t][Len(stack[t]) - 2])
     \/ /\ Top(t).res # "ok"
        /\ Throw(t, 2, Top(t).res)
  /\ UNCHANGED <<storeVars, batchVars, held, handles>>

\* ------------------------------------------- HybridNitroState::setAtomValue
\* The lookup under the registry lock, then the read of isBatching().
setAtomValue(t, k, v) ==
  /\ Acquirable(t, {RegistryLock})
  /\ LET f == Frame("setAtomValue", k, v) IN
     IF SelfHeld(t, {RegistryLock}) THEN \E g \in Relock(f) : Push(t, g)
     ELSE IF k \notin DOMAIN atoms THEN Push(t, [f EXCEPT !.res = "NotFound"])
     ELSE Push(t, [f EXCEPT !.pc = "set", !.res = "none",
                            !.batching = (batchDepth > 0),
                            !.snap = Callbacks(atoms[k].subscribers)])
  /\ UNCHANGED <<storeVars, batchVars, held, handles>>

\* atom->set(rt, value): AtomCore::set stores under the cell's lock, releases it and
\* calls notify().
AtomSet(t) ==
  /\ Running(t, "setAtomValue", "set")
  /\ Acquirable(t, {AtomLock(Top(t).key)})
  /\ IF SelfHeld(t, {AtomLock(Top(t).key)})
     THEN /\ \E g \in Relock(Top(t)) : SetTop(t, g)
          /\ UNCHANGED atoms
     ELSE /\ atoms' = [atoms EXCEPT ![Top(t).key] = AtomStore(@, Top(t).val)]
          /\ stack' = [stack EXCEPT ![t] =
               Append([@ EXCEPT ![Len(@)] = [Top(t) EXCEPT !.pc = "notify"]],
                      [Frame("notify", Top(t).key, NoValue) EXCEPT !.pc = "copy"])]
  /\ UNCHANGED <<computed, computeFns, cells, batchVars, held, handles>>

\* A step of setAtomValue that uses the AtomCore* of the lookup after the registry has
\* destroyed the cell: the store of AtomCore::set, or the block of notify() under the
\* lock.  The process stops, or nothing visible happens and the call goes on.
OnDestroyedCell(t) ==
  /\ Running(t, "setAtomValue", "set") \/ Running(t, "notify", "copy")
  /\ Top(t).key \notin DOMAIN atoms
  /\ \/ SetTop(t, [Top(t) EXCEPT !.pc = "crash"])
     \/ IF Top(t).op = "setAtomValue"
        THEN stack' = [stack EXCEPT ![t] =
               Append([@ EXCEPT ![Len(@)] = [Top(t) EXCEPT !.pc = "notify"]],
                      [Frame("notify", Top(t).key, NoValue) EXCEPT !.pc = "copy"])]
        ELSE SetTop(t, [Top(t) EXCEPT !.pc = "loop", !.cbs = <<>>])
  /\ UNCHANGED <<storeVars, batchVars, held, handles>>

\* BatchManager::instance().queueNotification(atom), the last step of the batch path.
QueueNotification(t) ==
  /\ Running(t, "setAtomValue", "queue")
  /\ Acquirable(t, {BatchLock})
  /\ IF SelfHeld(t, {BatchLock})
     THEN /\ \E g \in Relock(Top(t)) : SetTop(t, g)
          /\ UNCHANGED pendingNotifications
     ELSE /\ pendingNotifications' = QueueLocked(batchDepth, pendingNotifications, Top(t).key)
          /\ SetTop(t, [Top(t) EXCEPT !.pc = "ret", !.res = "ok"])
  /\ UNCHANGED <<storeVars, batchDepth, held, handles>>

\* --------------------------------------------------------- ComputedCore
\* ComputedCore::ComputedCore: dirty_ = true and no cached value.
NewComputed ==
  [dependencies |-> <<>>, subscriptionIds |-> <<>>,
   cachedValue |-> [some |-> FALSE, v |-> <<>>], dirty |-> TRUE]

\* ComputedCore::addDependency for computed c, on the pair of the ComputedCore under
\* construction and the atoms.
AddDependency(s, c, k) ==
  [core |-> [s.core EXCEPT !.dependencies = Append(@, Cell(k)),
                           !.subscriptionIds = Append(@, s.atoms[k].nextId)],
   atoms |-> [s.atoms EXCEPT ![k] =
                AtomSubscribe(@, MarkDirtyCallback(c, Len(s.core.dependencies) + 1))]]

\* A loop over the dependency keys that ends at the first key that names no atom.
RECURSIVE AddDependenciesUntilUnknown(_, _, _)
AddDependenciesUntilUnknown(s, c, deps) ==
  IF deps = <<>> \/ Head(deps) \notin DOMAIN s.atoms THEN s
  ELSE AddDependenciesUntilUnknown(AddDependency(s, c, Head(deps)), c, Tail(deps))

\* createComputed, the loop over the dependency keys: the keys that name no atom are
\* skipped.
RECURSIVE AddDependencies(_, _, _)
AddDependencies(s, c, deps) ==
  IF deps = <<>> THEN s
  ELSE AddDependencies(IF Head(deps) \in DOMAIN s.atoms THEN AddDependency(s, c, Head(deps))
                       ELSE s,
                       c, Tail(deps))

\* A get() that recomputes at every read.
NeedsComputeAlways(c) == TRUE

\* ComputedCore::get, its test: recompute if dirty or nothing is cached.
NeedsCompute(c) == c.dirty \/ ~c.cachedValue.some

\* ComputedCore::get, after compute_ has returned: cache the result, clear dirty_.
CacheResult(c, v) == [c EXCEPT !.cachedValue = [some |-> TRUE, v |-> v], !.dirty = FALSE]

\* The dependency lists and the compute functions of the JS side.  A compute function
\* is the list of the atoms it reads through getAtomValue, as the getter of atom()
\* does; it returns the list of the values read.
DepLists == {<<>>, <<"a">>, <<"b">>, <<"a", "b">>}

\* A createComputed that stores the compute function before it looks the key up.
createComputedStoresFirst(t, c, deps, reads) ==
  /\ Acquirable(t, {RegistryLock}) /\ ~SelfHeld(t, {RegistryLock})
  /\ \A i \in 1..Len(deps) : deps[i] \in DOMAIN atoms =>
       (Acquirable(t, {AtomLock(deps[i])}) /\ atoms[deps[i]].nextId < MaxSubs)
  /\ LET f == [Frame("createComputed", c, NoValue) EXCEPT !.snap = deps]
         s == AddDependencies([core |-> NewComputed, atoms |-> atoms], c, deps) IN
     /\ computeFns' = Insert(computeFns, c, reads)
     /\ IF c \in DOMAIN computed
        THEN /\ Push(t, [f EXCEPT !.res = "AlreadyExists"])
             /\ UNCHANGED <<atoms, computed>>
        ELSE /\ computed' = Insert(computed, c, s.core)
             /\ atoms' = s.atoms
             /\ Push(t, f)
  /\ UNCHANGED <<cells, batchVars, held, handles>>

\* HybridNitroState::createComputed
createComputed(t, c, deps, reads) ==
  /\ Acquirable(t, {RegistryLock})
  /\ \A i \in 1..Len(deps) : deps[i] \in DOMAIN atoms =>
       (Acquirable(t, {AtomLock(deps[i])}) /\ atoms[deps[i]].nextId < MaxSubs)
  /\ LET f == [Frame("createComputed", c, NoValue) EXCEPT !.snap = deps]
         s == AddDependencies([core |-> NewComputed, atoms |-> atoms], c, deps) IN
     IF SelfHeld(t, {RegistryLock})
     THEN /\ \E g \in Relock(f) : Push(t, g)
          /\ UNCHANGED storeVars
     ELSE IF c \in DOMAIN computed
     THEN /\ Push(t, [f EXCEPT !.res = "AlreadyExists"])
          /\ UNCHANGED storeVars
     ELSE /\ computeFns' = Insert(computeFns, c, reads)
          /\ computed' = Insert(computed, c, s.core)
          /\ atoms' = s.atoms
          /\ Push(t, f)
  /\ UNCHANGED <<cells, batchVars, held, handles>>

\* atom(read) of atom.ts, the computed branch: `dependencies` is the empty array it
\* was declared as when createComputed is called, because getter, which alone pushes
\* keys onto it, runs only when compute runs, and compute is not called before.
atom(t, c, read) == createComputed(t, c, <<>>, read)

\* HybridNitroState::getComputedValue up to the call of the compute function: the
\* registry lock is taken and, if ComputedCore::get has to recompute, compute_ is
\* called with the lock_guard still in scope.
getComputedValue(t, c) ==
  /\ Acquirable(t, {RegistryLock})
  /\ LET f == [Frame("getComputedValue", c, NoValue) EXCEPT !.was = fresh[c]] IN
     IF SelfHeld(t, {RegistryLock})
     THEN /\ \E g \in Relock(f) : Push(t, g)
          /\ UNCHANGED held
     ELSE IF c \notin DOMAIN computed
     THEN /\ Push(t, [f EXCEPT !.res = "NotFound"])
          /\ UNCHANGED held
     ELSE IF NeedsCompute(computed[c])
     THEN /\ stack' = [stack EXCEPT ![t] =
               Append(Append(@, [f EXCEPT !.pc = "compute", !.res = "none", !.ncomp = 1]),
                      [Frame("compute", c, <<>>) EXCEPT !.pc = "body",
                                                       !.cbs = computeFns[c]])]
          /\ held' = [held EXCEPT ![t] = @ \cup {RegistryLock}]
     ELSE /\ Push(t, [f EXCEPT !.out = computed[c].cachedValue.v])
          /\ UNCHANGED held
  /\ UNCHANGED <<storeVars, batchVars, handles>>

\* ComputedCore::~ComputedCore, its loop from dependency i on: the atoms it can leave.
\* dependencies_[i]->unsubscribe(subscriptionIds_[i]) removes the subscription from a
\* cell that exists; on a destroyed cell it does nothing visible or acts on the cell
\* constructed for the key since.
RECURSIVE DropDependencies(_, _, _)
DropDependencies(as, core, i) ==
  IF i > Len(core.dependencies) THEN {as}
  ELSE LET p == core.dependencies[i]
           hit == [as EXCEPT ![p[1]] = AtomUnsubscribe(@, core.subscriptionIds[i])]
       IN IF Live(p) THEN DropDependencies(hit, core, i + 1)
          ELSE DropDependencies(as, core, i + 1)
                 \cup (IF p[1] \in DOMAIN as THEN DropDependencies(hit, core, i + 1) ELSE {})

\* HybridNitroState::deleteComputed: computed_.erase(key) runs ~ComputedCore under the
\* registry lock, then computeFns_.erase(key).
deleteComputed(t, c) ==
  /\ Acquirable(t, {RegistryLock})
  /\ c \in DOMAIN computed =>
       \A i \in 1..Len(computed[c].dependencies) :
         Live(computed[c].dependencies[i]) =>
           Acquirable(t, {AtomLock(computed[c].dependencies[i][1])})
  /\ LET f == Frame("deleteComputed", c, NoValue) IN
     IF SelfHeld(t, {RegistryLock})
     THEN /\ \E g \in Relock(f) : Push(t, g)
          /\ UNCHANGED <<atoms, computed, computeFns>>
     ELSE IF c \notin DOMAIN computed
     THEN /\ computeFns' = Erase(computeFns, c)
          /\ Push(t, f)
          /\ UNCHANGED <<atoms, computed>>
     ELSE \/ /\ \E as \in DropDependencies(atoms, computed[c], 1) : atoms' = as
             /\ computed' = Erase(computed, c)
             /\ computeFns' = Erase(computeFns, c)
             /\ Push(t, f)
          \/ /\ \E i \in 1..Len(computed[c].dependencies) : ~Live(computed[c].dependencies[i])
             /\ Push(t, [f EXCEPT !.pc = "crash", !.res = "none"])
             /\ UNCHANGED <<atoms, computed, computeFns>>
  /\ UNCHANGED <<cells, batchVars, held, handles>>

\* getAtomValue returns to the compute function that called it: the value is read,
\* or the exception leaves the compute function, ComputedCore::get and
\* getComputedValue, whose lock_guard releases the registry lock.
ReturnToCompute(t) ==
  /\ Depth(t) > 2
  /\ Top(t).pc = "ret"
  /\ Caller(t).op = "compute"
  /\ IF Top(t).res = "ok"
     THEN /\ Unwind(t, 1, [Caller(t) EXCEPT !.cbs = Tail(@), !.val = Append(@, Top(t).out)])
          /\ UNCHANGED held
     ELSE /\ Unwind(t, 2, [stack[t][Len(stack[t]) - 2] EXCEPT !.pc = "ret", !.res = Top(t).res])
          /\ held' = [held EXCEPT ![t] = @ \ {RegistryLock}]
  /\ UNCHANGED <<storeVars, batchVars, handles>>

\* The compute function returns: ComputedCore::get caches the result and
\* getComputedValue returns it, releasing the registry lock.
ComputeReturn(t) ==
  /\ Running(t, "compute", "body")
  /\ Top(t).cbs = <<>>
  /\ computed' = [computed EXCEPT ![Top(t).key] = CacheResult(@, Top(t).val)]
  /\ Unwind(t, 1, [Caller(t) EXCEPT !.pc = "ret", !.res = "ok", !.out = Top(t).val])
  /\ held' = [held EXCEPT ![t] = @ \ {RegistryLock}]
  /\ UNCHANGED <<atoms, computeFns, cells, batchVars, handles>>

\* A get() that clears dirty_ before it calls compute_.
ComputeThrowsAfterClean(t) ==
  /\ Running(t, "compute", "body")
  /\ computed' = [computed EXCEPT ![Top(t).key] = [@ EXCEPT !.dirty = FALSE]]
  /\ Unwind(t, 1, [Caller(t) EXCEPT !.pc = "ret", !.res = "js_error"])
  /\ held' = [held EXCEPT ![t] = @ \ {RegistryLock}]
  /\ UNCHANGED <<atoms, computeFns, cells, batchVars, handles>>

\* The compute function throws: the exception leaves compute_, ComputedCore::get before
\* it has assigned cachedValue_ or dirty_, and getComputedValue, whose lock_guard
\* releases the registry lock.
ComputeThrows(t) ==
  /\ Running(t, "compute", "body")
  /\ Unwind(t, 1, [Caller(t) EXCEPT !.pc = "ret", !.res = "js_error"])
  /\ held' = [held EXCEPT ![t] = @ \ {RegistryLock}]
  /\ UNCHANGED <<storeVars, batchVars, handles>>

\* ------------------------------------------------------- batch(callback)
\* The body of the callback given to batch(), where it calls the store.
InBatchBody(t) == Running(t, "batch", "body")

\* batch(callback) of useAtom.ts is called: its frame keeps the batch depth it found,
\* the calls it has made to the store, and how its callback ended.
batch(t) ==
  /\ batchDepth < MaxBatchDepth
  /\ Push(t, [Frame("batch", NoValue, batchDepth) EXCEPT !.pc = "start", !.res = "none"])
  /\ UNCHANGED <<storeVars, batchVars, held, handles>>

\* A batch() whose callback throws past it: no finally block.
BatchBodyThrowsPastBatch(t) ==
  /\ InBatchBody(t)
  /\ SetTop(t, [Top(t) EXCEPT !.pc = "ret", !.res = "js_error", !.was = "threw"])
  /\ UNCHANGED <<storeVars, batchVars, held, handles>>

\* callback() returns: the finally block is next.
BatchBodyReturns(t) ==
  /\ InBatchBody(t)
  /\ SetTop(t, [Top(t) EXCEPT !.pc = "finally", !.was = "returned"])
  /\ UNCHANGED <<storeVars, batchVars, held, handles>>

\* callback() throws: the finally block is next, and the exception goes on after it.
BatchBodyThrows(t) ==
  /\ InBatchBody(t)
  /\ SetTop(t, [Top(t) EXCEPT !.pc = "finally", !.was = "threw"])
  /\ UNCHANGED <<storeVars, batchVars, held, handles>>

\* A call made by batch() or by its callback returns.  startBatch is outside the try
\* block; the callback catches what a call of its own threw, or lets it go on; what
\* endBatch throws in the finally block replaces the exception of the callback.
ReturnToBatch(t) ==
  /\ Depth(t) >= 2
  /\ Top(t).pc = "ret"
  /\ Caller(t).op = "batch"
  /\ LET b == Caller(t) IN
     CASE b.pc = "start" ->
            IF Top(t).res = "ok"
            THEN Unwind(t, 1, [b EXCEPT !.pc = "body", !.inv = Append(@, "startBatch")])
            ELSE Unwind(t, 1, [b EXCEPT !.pc = "ret", !.res = Top(t).res])
       [] b.pc = "body" ->
            \/ Unwind(t, 1, b)
            \/ /\ Top(t).res # "ok"
               /\ Unwind(t, 1, [b EXCEPT !.pc = "finally", !.was = "threw"])
       [] b.pc = "finally" ->
            Unwind(t, 1, [b EXCEPT !.pc = "ret", !.inv = Append(@, "endBatch"),
                                   !.res = IF Top(t).res # "ok" THEN Top(t).res
                                           ELSE IF b.was = "threw" THEN "js_error"
                                           ELSE "ok"])
  /\ UNCHANGED <<storeVars, batchVars, held, handles>>

\* ------------------------------------------- the map-based store
\* margelo::nitro::nitrostate::HybridNitroState: one mutex, keyed maps, a global
\* subscriber id, a flag for batching and a vector of pending keys.  Its calls run on
\* the same frames; a callback is named by the tuple the JS program knows it by.
MapLock == "map"                    \* HybridNitroState::mutex_ of the map-based store

NewMapStore ==
  [atoms_ |-> EmptyMap, computed_ |-> EmptyMap, computeFns_ |-> EmptyMap,
   subscribers_ |-> EmptyMap, nextSubscriberId_ |-> 0,
   isBatching_ |-> FALSE, pendingNotifications_ |-> <<>>]

\* subscribers_[key], which operator[] creates empty if the key has no entry.
MapSubscribersAt(ms, k) == IF k \in DOMAIN ms.subscribers_ THEN ms.subscribers_[k] ELSE <<>>

\* The callbacks the loops of setAtomValue and endBatch call for key k: those of
\* subscribers_.find(key), none if the key has no entry.
MapCallbacks(ms, k) == Callbacks(MapSubscribersAt(ms, k))

\* endBatch, its loop over pendingNotifications_: the callbacks it calls, in order.
RECURSIVE MapPendingCallbacks(_, _)
MapPendingCallbacks(ms, keys) ==
  IF keys = <<>> THEN <<>>
  ELSE MapCallbacks(ms, Head(keys)) \o MapPendingCallbacks(ms, Tail(keys))

\* createAtom of the map-based store
mapCreateAtom(t, k, v) ==
  /\ Acquirable(t, {MapLock})
  /\ LET f == Frame("createAtom", k, v) IN
     IF SelfHeld(t, {MapLock})
     THEN /\ \E g \in Relock(f) : Push(t, g)
          /\ UNCHANGED mapStore
     ELSE IF k \in DOMAIN mapStore.atoms_
     THEN /\ Push(t, [f EXCEPT !.res = "AlreadyExists"])
          /\ UNCHANGED mapStore
     ELSE /\ mapStore' = [mapStore EXCEPT !.atoms_ = Insert(@, k, v)]
          /\ Push(t, f)
  /\ UNCHANGED <<storeVars, batchVars, held, handles, mapHandles>>

\* getAtomValue of the map-based store: the shared_ptr stored.
mapGetAtomValue(t, k) ==
  /\ Acquirable(t, {MapLock})
  /\ LET f == Frame("getAtomValue", k, NoValue) IN
     IF SelfHeld(t, {MapLock}) THEN \E g \in Relock(f) : Push(t, g)
     ELSE IF k \notin DOMAIN mapStore.atoms_ THEN Push(t, [f EXCEPT !.res = "NotFound"])
     ELSE Push(t, [f EXCEPT !.out = mapStore.atoms_[k]])
  /\ UNCHANGED <<storeVars, batchVars, held, handles, mapVars>>

\* setAtomValue of the map-based store up to its loop: the value is stored, and the
\* key is pushed onto the pending vector if isBatching_, else the subscribers of the
\* key are called with the mutex held.
mapSetAtomValue(t, k, v) ==
  /\ Acquirable(t, {MapLock})
  /\ LET f == Frame("setAtomValue", k, v) IN
     IF SelfHeld(t, {MapLock})
     THEN /\ \E g \in Relock(f) : Push(t, g)
          /\ UNCHANGED <<mapStore, held>>
     ELSE IF k \notin DOMAIN mapStore.atoms_
     THEN /\ Push(t, [f EXCEPT !.res = "NotFound"])
          /\ UNCHANGED <<mapStore, held>>
     ELSE IF mapStore.isBatching_
     THEN /\ mapStore' = [mapStore EXCEPT !.atoms_[k] = v,
                                          !.pendingNotifications_ = Append(@, k)]
          /\ Push(t, [f EXCEPT !.batching = TRUE])
          /\ UNCHANGED held
     ELSE /\ mapStore' = [mapStore EXCEPT !.atoms_[k] = v]
          /\ Push(t, [f EXCEPT !.pc = "call", !.res = "none",
                               !.cbs = MapCallbacks(mapStore, k),
                               !.snap = MapCallbacks(mapStore, k)])
          /\ held' = [held EXCEPT ![t] = @ \cup {MapLock}]
  /\ UNCHANGED <<storeVars, batchVars, handles, mapHandles>>

\* subscribeAtom of the map-based store, for the callback cb of the JS side; the
\* function it returns captures the key and the subscriber id.
mapSubscribeAtom(t, k, cb) ==
  /\ Acquirable(t, {MapLock})
  /\ LET f == Frame("subscribeAtom", k, NoValue)
         id == mapStore.nextSubscriberId_ IN
     IF SelfHeld(t, {MapLock})
     THEN /\ \E g \in Relock(f) : Push(t, g)
          /\ UNCHANGED mapVars
     ELSE IF k \notin DOMAIN mapStore.atoms_
     THEN /\ Push(t, [f EXCEPT !.res = "NotFound"])
          /\ UNCHANGED mapVars
     ELSE /\ mapStore' = [mapStore EXCEPT
               !.subscribers_ = Insert(@, k, Append(MapSubscribersAt(mapStore, k),
                                                    [id |-> id, cb |-> cb])),
               !.nextSubscriberId_ = @ + 1]
          /\ mapHandles' = Insert(mapHandles, cb, <<k, id>>)
          /\ Push(t, [f EXCEPT !.val = id])
  /\ UNCHANGED <<storeVars, batchVars, held, handles>>

\* The unsubscribe function h = <<key, subscriberId>> of the map-based store.
mapUnsubscribe(t, h) ==
  /\ Acquirable(t, {MapLock})
  /\ LET f == Frame("unsubscribe", h[1], h[2]) IN
     IF SelfHeld(t, {MapLock})
     THEN /\ \E g \in Relock(f) : Push(t, g)
          /\ UNCHANGED mapStore
     ELSE /\ mapStore' = [mapStore EXCEPT
               !.subscribers_ = Insert(@, h[1], RemoveId(MapSubscribersAt(mapStore, h[1]), h[2]))]
          /\ Push(t, f)
  /\ UNCHANGED <<storeVars, batchVars, held, handles, mapHandles>>

\* deleteAtom of the map-based store
mapDeleteAtom(t, k) ==
  /\ Acquirable(t, {MapLock})
  /\ LET f == Frame("deleteAtom", k, NoValue) IN
     IF SelfHeld(t, {MapLock})
     THEN /\ \E g \in Relock(f) : Push(t, g)
          /\ UNCHANGED mapStore
     ELSE /\ mapStore' = [mapStore EXCEPT !.atoms_ = Erase(@, k), !.subscribers_ = Erase(@, k)]
          /\ Push(t, f)
  /\ UNCHANGED <<storeVars, batchVars, held, handles, mapHandles>>

\* startBatch of the map-based store
mapStartBatch(t) ==
  /\ Acquirable(t, {MapLock})
  /\ LET f == Frame("startBatch", NoValue, NoValue) IN
     IF SelfHeld(t, {MapLock})
     THEN /\ \E g \in Relock(f) : Push(t, g)
          /\ UNCHANGED mapStore
     ELSE /\ mapStore' = [mapStore EXCEPT !.isBatching_ = TRUE, !.pendingNotifications_ = <<>>]
          /\ Push(t, f)
  /\ UNCHANGED <<storeVars, batchVars, held, handles, mapHandles>>

\* endBatch of the map-based store up to its loop, which calls the subscribers of each
\* pending key with the mutex held.
mapEndBatch(t) ==
  /\ Acquirable(t, {MapLock})
  /\ LET f == Frame("endBatch", NoValue, NoValue) IN
     IF SelfHeld(t, {MapLock})
     THEN /\ \E g \in Relock(f) : Push(t, g)
          /\ UNCHANGED <<mapStore, held>>
     ELSE /\ mapStore' = [mapStore EXCEPT !.isBatching_ = FALSE]
          /\ Push(t, [f EXCEPT !.pc = "call", !.res = "none", !.flushed = TRUE,
                               !.cbs = MapPendingCallbacks(mapStore, mapStore.pendingNotifications_)])
          /\ held' = [held EXCEPT ![t] = @ \cup {MapLock}]
  /\ UNCHANGED <<storeVars, batchVars, handles, mapHandles>>

\* One turn of the loop of setAtomValue or endBatch: callback().
mapCall(t) ==
  /\ Depth(t) > 0 /\ Top(t).pc = "call"
  /\ Top(t).cbs # <<>>
  /\ stack' = [stack EXCEPT ![t] =
       Append([@ EXCEPT ![Len(@)] = [Top(t) EXCEPT !.cbs = Tail(@),
                                                  !.inv = Append(@, Head(Top(t).cbs))]],
              [Frame("callback", Head(Top(t).cbs)[2], Head(Top(t).cbs)[3])
                 EXCEPT !.pc = "body"])]
  /\ UNCHANGED <<storeVars, batchVars, held, handles, mapVars>>

\* The loop is over: endBatch clears the pending vector; the lock_guard releases the
\* mutex and the call returns.
mapCallsDone(t) ==
  /\ Depth(t) > 0 /\ Top(t).pc = "call"
  /\ Top(t).cbs = <<>>
  /\ mapStore' = IF Top(t).op = "endBatch"
                 THEN [mapStore EXCEPT !.pendingNotifications_ = <<>>]
                 ELSE mapStore
  /\ SetTop(t, [Top(t) EXCEPT !.pc = "ret", !.res = "ok"])
  /\ held' = [held EXCEPT ![t] = @ \ {MapLock}]
  /\ UNCHANGED <<storeVars, batchVars, handles, mapHandles>>

\* createComputed of the map-based store, for the compute function fn.  The key is
\* looked up in computed_, the map of the cached values; the function is stored; the
\* loop calls subscribeAtom for the first dependency key that names an atom, and
\* subscribeAtom locks the mutex createComputed owns: it never returns, with the mutex
\* owned for good, or it throws and the exception leaves createComputed.
mapCreateComputed(t, c, deps, fn) ==
  /\ Acquirable(t, {MapLock})
  /\ LET f == [Frame("createComputed", c, fn) EXCEPT !.snap = deps] IN
     IF SelfHeld(t, {MapLock})
     THEN /\ \E g \in Relock(f) : Push(t, g)
          /\ UNCHANGED <<mapStore, held>>
     ELSE IF c \in DOMAIN mapStore.computed_
     THEN /\ Push(t, [f EXCEPT !.res = "AlreadyExists"])
          /\ UNCHANGED <<mapStore, held>>
     ELSE /\ mapStore' = [mapStore EXCEPT !.computeFns_ = Insert(@, c, fn)]
          /\ IF \A i \in 1..Len(deps) : deps[i] \notin DOMAIN mapStore.atoms_
             THEN /\ Push(t, f)
                  /\ UNCHANGED held
             ELSE \E g \in Relock(f) :
                    /\ Push(t, g)
                    /\ held' = IF g.pc = "deadlock"
                               THEN [held EXCEPT ![t] = @ \cup {MapLock}] ELSE held
  /\ UNCHANGED <<storeVars, batchVars, handles, mapHandles>>

\* getComputedValue of the map-based store up to the call of the compute function,
\* which is made with the mutex owned.
mapGetComputedValue(t, c) ==
  /\ Acquirable(t, {MapLock})
  /\ LET f == Frame("getComputedValue", c, NoValue) IN
     IF SelfHeld(t, {MapLock})
     THEN /\ \E g \in Relock(f) : Push(t, g)
          /\ UNCHANGED held
     ELSE IF c \in DOMAIN mapStore.computed_
     THEN /\ Push(t, [f EXCEPT !.out = mapStore.computed_[c]])
          /\ UNCHANGED held
     ELSE IF c \notin DOMAIN mapStore.computeFns_
     THEN /\ Push(t, [f EXCEPT !.res = "NotFound"])
          /\ UNCHANGED held
     ELSE /\ stack' = [stack EXCEPT ![t] =
               Append(Append(@, [f EXCEPT !.pc = "compute", !.res = "none", !.ncomp = 1]),
                      [Frame("compute", c, mapStore.computeFns_[c]) EXCEPT !.pc = "body"])]
          /\ held' = [held EXCEPT ![t] = @ \cup {MapLock}]
  /\ UNCHANGED <<storeVars, batchVars, handles, mapVars>>

\* The compute function returns: getComputedValue caches the result, which is named
\* by the function that made it, and returns it; the lock_guard releases the mutex.
mapComputeReturn(t) ==
  /\ Running(t, "compute", "body")
  /\ mapStore' = [mapStore EXCEPT !.computed_ = Insert(@, Top(t).key, Top(t).val)]
  /\ Unwind(t, 1, [Caller(t) EXCEPT !.pc = "ret", !.res = "ok", !.out = Top(t).val])
  /\ held' = [held EXCEPT ![t] = @ \ {MapLock}]
  /\ UNCHANGED <<storeVars, batchVars, handles, mapHandles>>

\* A call made by a subscriber callback of the map-based store returns to it, and the
\* callback returns normally, or with the exception of the call: the exception leaves
\* the loop and setAtomValue or endBatch, whose lock_guard releases the mutex.
mapReturnToCallback(t) ==
  /\ Depth(t) > 2
  /\ Top(t).pc = "ret"
  /\ Caller(t).op = "callback"
  /\ \/ /\ Unwind(t, 2, stack[t][Len(stack[t]) - 2])
        /\ UNCHANGED held
     \/ /\ Top(t).res # "ok"
        /\ Unwind(t, 2, [stack[t][Len(stack[t]) - 2] EXCEPT !.pc = "ret", !.res = Top(t).res])
        /\ held' = [held EXCEPT ![t] = @ \ {MapLock}]
  /\ UNCHANGED <<storeVars, batchVars, handles, mapVars>>

\* A finished call at the top level of the JS program returns to it.
ReturnToJs(t) ==
  /\ Depth(t) = 1
  /\ Top(t).pc = "ret"
  /\ stack' = [stack EXCEPT ![t] = <<>>]
  /\ UNCHANGED <<storeVars, batchVars, held, handles>>

\* ------------------------------------------------------------------ Init
NoneDelivered == [k \in Keys |-> [i \in 0..(MaxSubs - 1) |-> 0]]

Init ==
  /\ atoms = EmptyMap
  /\ computed = EmptyMap
  /\ computeFns = EmptyMap
  /\ cells = [k \in Keys |-> 0]
  /\ batchDepth = 0
  /\ pendingNotifications = {}
  /\ held = [t \in Threads |-> {}]
  /\ stack = [t \in Threads |-> <<>>]
  /\ handles = {}
  /\ mapStore = NewMapStore
  /\ mapHandles = EmptyMap
  /\ begun = [t \in Threads |-> 0]
  /\ delivered = NoneDelivered
  /\ fresh = [c \in CKeys |-> "none"]

\* ---------------------------------------------------- the specifications
\* The calls of the top level of the JS program and the steps of the calls in
\* progress that no specification below attaches history to.
Base ==
  \/ \E k \in Keys, v \in Values : AtJs(JS) /\ createAtom(JS, k, v) /\ UNCHANGED <<histVars, mapVars>>
  \/ \E k \in Keys : AtJs(JS) /\ getAtomValue(JS, k) /\ UNCHANGED <<histVars, mapVars>>
  \/ \E k \in Keys, v \in Values : AtJs(JS) /\ setAtomValue(JS, k, v) /\ UNCHANGED <<histVars, mapVars>>
  \/ \E k \in Keys : AtJs(JS) /\ IdsBelow(k, MaxSubs) /\ subscribeAtom(JS, k) /\ UNCHANGED <<histVars, mapVars>>
  \/ \E h \in handles : AtJs(JS) /\ unsubscribe(JS, h) /\ UNCHANGED <<histVars, mapVars>>
  \/ AtJs(JS) /\ endBatch(JS) /\ UNCHANGED <<histVars, mapVars>>
  \/ AtomSet(JS) /\ UNCHANGED <<histVars, mapVars>>
  \/ QueueNotification(JS) /\ UNCHANGED <<histVars, mapVars>>
  \/ NotifyCopy(JS) /\ UNCHANGED <<histVars, mapVars>>
  \/ NotifyReturnToSet(JS) /\ UNCHANGED <<histVars, mapVars>>
  \/ NotifyReturnToEndBatch(JS) /\ UNCHANGED <<histVars, mapVars>>
  \/ CallbackReturn(JS) /\ UNCHANGED <<histVars, mapVars>>
  \/ EndBatchNotify(JS) /\ UNCHANGED <<histVars, mapVars>>
  \/ EndBatchDone(JS) /\ UNCHANGED <<histVars, mapVars>>
  \/ ReturnToJs(JS) /\ UNCHANGED <<histVars, mapVars>>

\* Spec: the JS thread alone; atoms, subscribers whose callbacks do not call the
\* store, and batches.
Next ==
  \/ Base
  \/ AtJs(JS) /\ startBatch(JS) /\ UNCHANGED <<histVars, mapVars>>
  \/ NotifyCallJs(JS) /\ UNCHANGED <<histVars, mapVars>>

Spec == Init /\ [][Next]_vars

\* SpecCallbackFails: Spec with subscriber callbacks that throw.
NextCallbackFails ==
  \/ Next
  \/ CallbackThrows(JS) /\ UNCHANGED <<histVars, mapVars>>

SpecCallbackFails == Init /\ [][NextCallbackFails]_vars

\* SpecBatchFn: the JS thread alone; batches are opened and closed by batch(callback)
\* only, whose callback writes atoms and calls batch() again; subscriber callbacks and
\* the callbacks of batch() return or throw.
NextBatchFn ==
  \/ \E k \in Keys : AtJs(JS) /\ createAtom(JS, k, "v1") /\ UNCHANGED <<histVars, mapVars>>
  \/ \E k \in Keys : AtJs(JS) /\ IdsBelow(k, MaxSubs) /\ subscribeAtom(JS, k) /\ UNCHANGED <<histVars, mapVars>>
  \/ (AtJs(JS) \/ InBatchBody(JS)) /\ batch(JS) /\ UNCHANGED <<histVars, mapVars>>
  \/ Running(JS, "batch", "start") /\ startBatch(JS) /\ UNCHANGED <<histVars, mapVars>>
  \/ \E k \in Keys : InBatchBody(JS) /\ setAtomValue(JS, k, "v2") /\ UNCHANGED <<histVars, mapVars>>
  \/ BatchBodyReturns(JS) /\ UNCHANGED <<histVars, mapVars>>
  \/ BatchBodyThrows(JS) /\ UNCHANGED <<histVars, mapVars>>
  \/ Running(JS, "batch", "finally") /\ endBatch(JS) /\ UNCHANGED <<histVars, mapVars>>
  \/ ReturnToBatch(JS) /\ UNCHANGED <<histVars, mapVars>>
  \/ AtomSet(JS) /\ UNCHANGED <<histVars, mapVars>>
  \/ QueueNotification(JS) /\ UNCHANGED <<histVars, mapVars>>
  \/ NotifyCopy(JS) /\ UNCHANGED <<histVars, mapVars>>
  \/ NotifyCallJs(JS) /\ UNCHANGED <<histVars, mapVars>>
  \/ CallbackReturn(JS) /\ UNCHANGED <<histVars, mapVars>>
  \/ CallbackThrows(JS) /\ UNCHANGED <<histVars, mapVars>>
  \/ NotifyReturnToSet(JS) /\ UNCHANGED <<histVars, mapVars>>
  \/ NotifyReturnToEndBatch(JS) /\ UNCHANGED <<histVars, mapVars>>
  \/ EndBatchNotify(JS) /\ UNCHANGED <<histVars, mapVars>>
  \/ EndBatchDone(JS) /\ UNCHANGED <<histVars, mapVars>>
  \/ ReturnToJs(JS) /\ UNCHANGED <<histVars, mapVars>>

SpecBatchFn == Init /\ [][NextBatchFn]_vars

\* SpecAtomFn: the JS thread alone, no batch; atoms, and derived atoms made by
\* atom(read), whose read functions read atoms through get.
NextAtomFn ==
  \/ \E k \in Keys, v \in Values : AtJs(JS) /\ createAtom(JS, k, v) /\ UNCHANGED <<histVars, mapVars>>
  \/ \E k \in Keys, v \in Values : AtJs(JS) /\ setAtomValue(JS, k, v) /\ UNCHANGED <<histVars, mapVars>>
  \/ \E c \in CKeys, read \in DepLists : AtJs(JS) /\ atom(JS, c, read) /\ UNCHANGED <<histVars, mapVars>>
  \/ \E c \in CKeys : AtJs(JS) /\ getComputedValue(JS, c) /\ UNCHANGED <<histVars, mapVars>>
  \/ \E k \in Keys : InCompute(JS, k) /\ getAtomValue(JS, k) /\ UNCHANGED <<histVars, mapVars>>
  \/ ReturnToCompute(JS) /\ UNCHANGED <<histVars, mapVars>>
  \/ ComputeReturn(JS) /\ UNCHANGED <<histVars, mapVars>>
  \/ AtomSet(JS) /\ UNCHANGED <<histVars, mapVars>>
  \/ NotifyCopy(JS) /\ UNCHANGED <<histVars, mapVars>>
  \/ NotifyReturnToSet(JS) /\ UNCHANGED <<histVars, mapVars>>
  \/ ReturnToJs(JS) /\ UNCHANGED <<histVars, mapVars>>

SpecAtomFn == Init /\ [][NextAtomFn]_vars

\* SpecBoth: one JS program run against both stores.  Thread JS makes each call on the
\* cell-based store; when that call has ended, the run MapRun makes the same call on
\* the map-based store, with the same callback or the unsubscribe function of the same
\* subscription; when both have returned, the program goes on.  The program deletes
\* no atom that is in the pending set of the cell-based store.
MapRun == "t2"
Ended == {"ret", "crash", "deadlock"}

\* The call of frame f, made on the map-based store.
Replay(t, f) ==
  CASE f.op = "createAtom"    -> mapCreateAtom(t, f.key, f.val)
    [] f.op = "getAtomValue"  -> mapGetAtomValue(t, f.key)
    [] f.op = "setAtomValue"  -> mapSetAtomValue(t, f.key, f.val)
    [] f.op = "subscribeAtom" ->
         mapSubscribeAtom(t, f.key, IF f.res = "ok" THEN JsCallback(f.atom, f.val)
                                    ELSE <<"js", f.key, f.val, 0>>)
    [] f.op = "unsubscribe"   ->
         /\ JsCallback(f.atom, f.val) \in DOMAIN mapHandles
         /\ mapUnsubscribe(t, mapHandles[JsCallback(f.atom, f.val)])
    [] f.op = "deleteAtom"    -> mapDeleteAtom(t, f.key)
    [] f.op = "startBatch"    -> mapStartBatch(t)
    [] f.op = "endBatch"      -> mapEndBatch(t)

NextBoth ==
  \/ \E k \in Keys : AtJs(JS) /\ AtJs(MapRun) /\ createAtom(JS, k, "v1") /\ UNCHANGED <<histVars, mapVars>>
  \/ \E k \in Keys : AtJs(JS) /\ AtJs(MapRun) /\ getAtomValue(JS, k) /\ UNCHANGED <<histVars, mapVars>>
  \/ \E k \in Keys :
       /\ AtJs(JS) /\ AtJs(MapRun)
       /\ Len(mapStore.pendingNotifications_) < MaxPending
       /\ setAtomValue(JS, k, "v2")
       /\ UNCHANGED <<histVars, mapVars>>
  \/ \E k \in Keys :
       /\ AtJs(JS) /\ AtJs(MapRun)
       /\ mapStore.nextSubscriberId_ < MaxSubs
       /\ subscribeAtom(JS, k)
       /\ UNCHANGED <<histVars, mapVars>>
  \/ \E h \in handles : AtJs(JS) /\ AtJs(MapRun) /\ unsubscribe(JS, h) /\ UNCHANGED <<histVars, mapVars>>
  \/ \E k \in Keys :
       /\ AtJs(JS) /\ AtJs(MapRun)
       /\ k \notin pendingNotifications
       /\ deleteAtom(JS, k)
       /\ UNCHANGED <<histVars, mapVars>>
  \/ AtJs(JS) /\ AtJs(MapRun) /\ startBatch(JS) /\ UNCHANGED <<histVars, mapVars>>
  \/ AtJs(JS) /\ AtJs(MapRun) /\ endBatch(JS) /\ UNCHANGED <<histVars, mapVars>>
  \/ AtomSet(JS) /\ UNCHANGED <<histVars, mapVars>>
  \/ QueueNotification(JS) /\ UNCHANGED <<histVars, mapVars>>
  \/ NotifyCopy(JS) /\ UNCHANGED <<histVars, mapVars>>
  \/ NotifyCallJs(JS) /\ UNCHANGED <<histVars, mapVars>>
  \/ NotifyReturnToSet(JS) /\ UNCHANGED <<histVars, mapVars>>
  \/ NotifyReturnToEndBatch(JS) /\ UNCHANGED <<histVars, mapVars>>
  \/ EndBatchNotify(JS) /\ UNCHANGED <<histVars, mapVars>>
  \/ EndBatchDone(JS) /\ UNCHANGED <<histVars, mapVars>>
  \/ \E t \in {JS, MapRun} : CallbackReturn(t) /\ UNCHANGED <<histVars, mapVars>>
  \/ /\ Depth(JS) = 1 /\ Top(JS).pc \in Ended
     /\ AtJs(MapRun)
     /\ Replay(MapRun, Top(JS))
     /\ UNCHANGED histVars
  \/ mapCall(MapRun) /\ UNCHANGED histVars
  \/ mapCallsDone(MapRun) /\ UNCHANGED histVars
  \/ /\ Depth(JS) = 1 /\ Top(JS).pc = "ret"
     /\ Depth(MapRun) = 1 /\ Top(MapRun).pc = "ret"
     /\ stack' = [stack EXCEPT ![JS] = <<>>, ![MapRun] = <<>>]
     /\ UNCHANGED <<storeVars, batchVars, held, handles, histVars, mapVars>>

SpecBoth == Init /\ [][NextBoth]_vars

\* SpecMapBatch: batch(callback) of useAtom.ts over the map-based store.  The program
\* creates atoms with the value v1 and subscribes to them at its top level, then calls
\* batch() with a callback that writes v2 to atoms, up to MaxPending times.
NextMapBatch ==
  \/ \E k \in Keys : AtJs(JS) /\ mapCreateAtom(JS, k, "v1") /\ UNCHANGED histVars
  \/ \E k \in Keys :
       /\ AtJs(JS)
       /\ mapStore.nextSubscriberId_ < MaxSubs
       /\ mapSubscribeAtom(JS, k, JsCallback(<<k, 1>>, mapStore.nextSubscriberId_))
       /\ UNCHANGED histVars
  \/ /\ AtJs(JS)
     /\ \A k \in DOMAIN mapStore.atoms_ : mapStore.atoms_[k] = "v1"
     /\ batch(JS)
     /\ UNCHANGED <<histVars, mapVars>>
  \/ Running(JS, "batch", "start") /\ mapStartBatch(JS) /\ UNCHANGED histVars
  \/ \E k \in Keys :
       /\ InBatchBody(JS)
       /\ Len(mapStore.pendingNotifications_) < MaxPending
       /\ mapSetAtomValue(JS, k, "v2")
       /\ UNCHANGED histVars
  \/ BatchBodyReturns(JS) /\ UNCHANGED <<histVars, mapVars>>
  \/ Running(JS, "batch", "finally") /\ mapEndBatch(JS) /\ UNCHANGED histVars
  \/ mapCall(JS) /\ UNCHANGED histVars
  \/ CallbackReturn(JS) /\ UNCHANGED <<histVars, mapVars>>
  \/ mapCallsDone(JS) /\ UNCHANGED histVars
  \/ ReturnToBatch(JS) /\ UNCHANGED <<histVars, mapVars>>
  \/ ReturnToJs(JS) /\ UNCHANGED <<histVars, mapVars>>

SpecMapBatch == Init /\ [][NextMapBatch]_vars

\* SpecMapNest: startBatch and endBatch of the map-based store called by the program
\* itself, nested up to MaxBatchDepth.  The history variable begun counts, for the JS
\* thread, the startBatch calls not yet matched by an endBatch; delivered is 1 for a
\* subscriber from a write of its atom made inside a batch until the next call of its
\* callback, and 0 otherwise.
NextMapNest ==
  \/ \E k \in Keys : AtJs(JS) /\ mapCreateAtom(JS, k, "v1") /\ UNCHANGED histVars
  \/ \E k \in Keys :
       /\ AtJs(JS) /\ begun[JS] = 0
       /\ mapStore.nextSubscriberId_ < MaxSubs
       /\ mapSubscribeAtom(JS, k, JsCallback(<<k, 1>>, mapStore.nextSubscriberId_))
       /\ UNCHANGED histVars
  \/ /\ AtJs(JS) /\ begun[JS] < MaxBatchDepth
     /\ mapStartBatch(JS)
     /\ begun' = [begun EXCEPT ![JS] = @ + 1]
     /\ UNCHANGED <<delivered, fresh>>
  \/ /\ AtJs(JS) /\ begun[JS] > 0
     /\ mapEndBatch(JS)
     /\ begun' = [begun EXCEPT ![JS] = @ - 1]
     /\ UNCHANGED <<delivered, fresh>>
  \/ \E k \in Keys :
       /\ AtJs(JS) /\ begun[JS] > 0
       /\ Len(mapStore.pendingNotifications_) < MaxPending
       /\ mapSetAtomValue(JS, k, "v2")
       /\ delivered' = [delivered EXCEPT ![k] =
                          [i \in 0..(MaxSubs - 1) |->
                             IF \E j \in 1..Len(MapSubscribersAt(mapStore, k)) :
                                  MapSubscribersAt(mapStore, k)[j].id = i
                             THEN 1 ELSE @[i]]]
       /\ UNCHANGED <<begun, fresh>>
  \/ /\ mapCall(JS)
     /\ delivered' = [delivered EXCEPT ![Head(Top(JS).cbs)[2]][Head(Top(JS).cbs)[3]] = 0]
     /\ UNCHANGED <<begun, fresh>>
  \/ CallbackReturn(JS) /\ UNCHANGED <<histVars, mapVars>>
  \/ mapCallsDone(JS) /\ UNCHANGED histVars
  \/ ReturnToJs(JS) /\ UNCHANGED <<histVars, mapVars>>

SpecMapNest == Init /\ [][NextMapNest]_vars

\* SpecMapReentrant: the map-based store with subscriber callbacks that read an atom
\* through getAtomValue, as the callbacks of useAtom and useAtomValue do, run from
\* setAtomValue with no batch open and from endBatch.
NextMapReentrant ==
  \/ \E k \in Keys : AtJs(JS) /\ mapCreateAtom(JS, k, "v1") /\ UNCHANGED histVars
  \/ \E k \in Keys :
       /\ AtJs(JS)
       /\ mapStore.nextSubscriberId_ < MaxSubs
       /\ mapSubscribeAtom(JS, k, JsCallback(<<k, 1>>, mapStore.nextSubscriberId_))
       /\ UNCHANGED histVars
  \/ AtJs(JS) /\ ~mapStore.isBatching_ /\ mapStartBatch(JS) /\ UNCHANGED histVars
  \/ AtJs(JS) /\ mapStore.isBatching_ /\ mapEndBatch(JS) /\ UNCHANGED histVars
  \/ \E k \in Keys :
       /\ AtJs(JS)
       /\ Len(mapStore.pendingNotifications_) < MaxPending
       /\ mapSetAtomValue(JS, k, "v2")
       /\ UNCHANGED histVars
  \/ mapCall(JS) /\ UNCHANGED histVars
  \/ \E k \in Keys : InCallback(JS) /\ mapGetAtomValue(JS, k) /\ UNCHANGED histVars
  \/ mapReturnToCallback(JS) /\ UNCHANGED histVars
  \/ mapCallsDone(JS) /\ UNCHANGED histVars
  \/ ReturnToJs(JS) /\ UNCHANGED <<histVars, mapVars>>

SpecMapReentrant == Init /\ [][NextMapReentrant]_vars

\* SpecMapComputed: the map-based store with computed whose compute functions, f and
\* g, read nothing; a computed is created with the dependency key "a", before or
\* after the atom of that key.  The history variable fresh of a computed is "tracked"
\* once a createComputed of it has found an atom under its dependency key.
NextMapComputed ==
  \/ \E k \in Keys : AtJs(JS) /\ mapCreateAtom(JS, k, "v1") /\ UNCHANGED histVars
  \/ \E k \in Keys : AtJs(JS) /\ mapSetAtomValue(JS, k, "v2") /\ UNCHANGED histVars
  \/ \E k \in Keys :
       /\ AtJs(JS)
       /\ mapStore.nextSubscriberId_ < MaxSubs
       /\ mapSubscribeAtom(JS, k, JsCallback(<<k, 1>>, mapStore.nextSubscriberId_))
       /\ UNCHANGED histVars
  \/ \E c \in CKeys, fn \in {"f", "g"} :
       /\ AtJs(JS)
       /\ mapCreateComputed(JS, c, <<"a">>, fn)
       /\ fresh' = IF c \notin DOMAIN mapStore.computed_ /\ "a" \in DOMAIN mapStore.atoms_
                   THEN [fresh EXCEPT ![c] = "tracked"] ELSE fresh
       /\ UNCHANGED <<begun, delivered>>
  \/ \E c \in CKeys : AtJs(JS) /\ mapGetComputedValue(JS, c) /\ UNCHANGED histVars
  \/ mapComputeReturn(JS) /\ UNCHANGED histVars
  \/ mapCall(JS) /\ UNCHANGED histVars
  \/ CallbackReturn(JS) /\ UNCHANGED <<histVars, mapVars>>
  \/ mapCallsDone(JS) /\ UNCHANGED histVars
  \/ ReturnToJs(JS) /\ UNCHANGED <<histVars, mapVars>>

SpecMapComputed == Init /\ [][NextMapComputed]_vars

\* SpecBatch: Spec with the history variable delivered, which counts, up to
\* MaxWrites, the invocations of each callback that belong to a batch: those made by
\* a setAtomValue that found a batch open and those made by endBatch, since the
\* startBatch that opened the batch.
OfBatch(f) == (f.op = "setAtomValue" /\ f.batching) \/ f.op = "endBatch"

NextBatch ==
  \/ Base
  \/ /\ AtJs(JS) /\ startBatch(JS)
     /\ delivered' = IF batchDepth = 0 THEN NoneDelivered ELSE delivered
     /\ UNCHANGED <<begun, fresh, mapVars>>
  \/ /\ NotifyCallJs(JS)
     /\ delivered' = IF OfBatch(Caller(JS))
                     THEN [delivered EXCEPT ![Head(Top(JS).cbs)[2]][Head(Top(JS).cbs)[3]] =
                             IF @ < MaxWrites THEN @ + 1 ELSE @]
                     ELSE delivered
     /\ UNCHANGED <<begun, fresh, mapVars>>

SpecBatch == Init /\ [][NextBatch]_vars

\* SpecReentrant: the JS thread alone; subscriber callbacks call back into the store
\* (getAtomValue, setAtomValue, subscribeAtom, an unsubscribe function, startBatch,
\* endBatch, on any key) or throw.
NextReentrant ==
  \/ Next
  \/ \E k \in Keys : InCallback(JS) /\ getAtomValue(JS, k) /\ UNCHANGED <<histVars, mapVars>>
  \/ \E k \in Keys, v \in Values : InCallback(JS) /\ setAtomValue(JS, k, v) /\ UNCHANGED <<histVars, mapVars>>
  \/ \E k \in Keys : InCallback(JS) /\ IdsBelow(k, MaxSubs) /\ subscribeAtom(JS, k) /\ UNCHANGED <<histVars, mapVars>>
  \/ \E h \in handles : InCallback(JS) /\ unsubscribe(JS, h) /\ UNCHANGED <<histVars, mapVars>>
  \/ InCallback(JS) /\ startBatch(JS) /\ UNCHANGED <<histVars, mapVars>>
  \/ InCallback(JS) /\ endBatch(JS) /\ UNCHANGED <<histVars, mapVars>>
  \/ ReturnToCallback(JS) /\ UNCHANGED <<histVars, mapVars>>
  \/ CallbackThrows(JS) /\ UNCHANGED <<histVars, mapVars>>

SpecReentrant == Init /\ [][NextReentrant]_vars

\* The computed of which atom k is a dependency.
Dependents(k) ==
  {c \in DOMAIN computed : \E i \in 1..Len(computed[c].dependencies) :
                              computed[c].dependencies[i] = Cell(k)}

\* SpecComputed: the JS thread alone; atoms, batches and computed whose compute
\* functions read atoms through getAtomValue.
NextComputed ==
  \/ \E k \in Keys, v \in Values : AtJs(JS) /\ createAtom(JS, k, v) /\ UNCHANGED <<histVars, mapVars>>
  \/ AtJs(JS) /\ startBatch(JS) /\ UNCHANGED <<histVars, mapVars>>
  \/ AtJs(JS) /\ endBatch(JS) /\ UNCHANGED <<histVars, mapVars>>
  \/ \E k \in Keys, v \in Values :
       /\ AtJs(JS) /\ setAtomValue(JS, k, v)
       /\ fresh' = [c \in CKeys |->
                      IF k \in DOMAIN atoms /\ c \in Dependents(k) THEN "stale" ELSE fresh[c]]
       /\ UNCHANGED <<begun, delivered, mapVars>>
  \/ \E c \in CKeys, deps \in DepLists, reads \in DepLists :
       /\ AtJs(JS) /\ createComputed(JS, c, deps, reads)
       /\ fresh' = IF c \in DOMAIN computed THEN fresh ELSE [fresh EXCEPT ![c] = "none"]
       /\ UNCHANGED <<begun, delivered, mapVars>>
  \/ \E c \in CKeys :
       /\ AtJs(JS) /\ getComputedValue(JS, c)
       /\ fresh' = IF c \in DOMAIN computed /\ ~NeedsCompute(computed[c])
                   THEN [fresh EXCEPT ![c] = "valid"] ELSE fresh
       /\ UNCHANGED <<begun, delivered, mapVars>>
  \/ \E k \in Keys : InCompute(JS, k) /\ getAtomValue(JS, k) /\ UNCHANGED <<histVars, mapVars>>
  \/ ReturnToCompute(JS) /\ UNCHANGED <<histVars, mapVars>>
  \/ /\ ComputeReturn(JS)
     /\ fresh' = [fresh EXCEPT ![Top(JS).key] = "valid"]
     /\ UNCHANGED <<begun, delivered, mapVars>>
  \/ NotifyCallMarkDirty(JS) /\ UNCHANGED <<histVars, mapVars>>
  \/ AtomSet(JS) /\ UNCHANGED <<histVars, mapVars>>
  \/ QueueNotification(JS) /\ UNCHANGED <<histVars, mapVars>>
  \/ NotifyCopy(JS) /\ UNCHANGED <<histVars, mapVars>>
  \/ NotifyReturnToSet(JS) /\ UNCHANGED <<histVars, mapVars>>
  \/ NotifyReturnToEndBatch(JS) /\ UNCHANGED <<histVars, mapVars>>
  \/ EndBatchNotify(JS) /\ UNCHANGED <<histVars, mapVars>>
  \/ EndBatchDone(JS) /\ UNCHANGED <<histVars, mapVars>>
  \/ ReturnToJs(JS) /\ UNCHANGED <<histVars, mapVars>>

SpecComputed == Init /\ [][NextComputed]_vars

\* SpecRace: thread JS writes atoms while another thread reads computed; atoms and
\* computed are created while no call is under way.  The history variable fresh of a
\* computed is "computing" from the call of its compute function until a dependency
\* is stored, "stale" from the store of a dependency until the next call of the compute
\* function, and "valid" once a compute function has returned with no dependency
\* stored since it was called.
NextRace ==
  \/ \E k \in Keys, v \in Values :
       /\ \A t \in Threads : AtJs(t)
       /\ createAtom(JS, k, v)
       /\ UNCHANGED <<histVars, mapVars>>
  \/ \E c \in CKeys, deps \in DepLists, reads \in DepLists :
       /\ \A t \in Threads : AtJs(t)
       /\ createComputed(JS, c, deps, reads)
       /\ fresh' = IF c \in DOMAIN computed THEN fresh ELSE [fresh EXCEPT ![c] = "none"]
       /\ UNCHANGED <<begun, delivered, mapVars>>
  \/ \E k \in Keys, v \in Values : AtJs(JS) /\ setAtomValue(JS, k, v) /\ UNCHANGED <<histVars, mapVars>>
  \/ /\ AtomSet(JS)
     /\ fresh' = [c \in CKeys |-> IF c \in Dependents(Top(JS).key) THEN "stale" ELSE fresh[c]]
     /\ UNCHANGED <<begun, delivered, mapVars>>
  \/ NotifyCopy(JS) /\ UNCHANGED <<histVars, mapVars>>
  \/ NotifyCallMarkDirty(JS) /\ UNCHANGED <<histVars, mapVars>>
  \/ NotifyReturnToSet(JS) /\ UNCHANGED <<histVars, mapVars>>
  \/ \E t \in Threads \ {JS}, c \in CKeys :
       /\ AtJs(t) /\ getComputedValue(t, c)
       /\ fresh' = IF c \in DOMAIN computed /\ NeedsCompute(computed[c])
                   THEN [fresh EXCEPT ![c] = "computing"] ELSE fresh
       /\ UNCHANGED <<begun, delivered, mapVars>>
  \/ \E t \in Threads \ {JS}, k \in Keys :
       InCompute(t, k) /\ getAtomValue(t, k) /\ UNCHANGED <<histVars, mapVars>>
  \/ \E t \in Threads \ {JS} : ReturnToCompute(t) /\ UNCHANGED <<histVars, mapVars>>
  \/ \E t \in Threads \ {JS} :
       /\ ComputeReturn(t)
       /\ fresh' = [fresh EXCEPT ![Top(t).key] = IF @ = "computing" THEN "valid" ELSE @]
       /\ UNCHANGED <<begun, delivered, mapVars>>
  \/ \E t \in Threads : ReturnToJs(t) /\ UNCHANGED <<histVars, mapVars>>

SpecRace == Init /\ [][NextRace]_vars

\* SpecComputeFails: SpecComputed with compute functions that throw.
NextComputeFails ==
  \/ NextComputed
  \/ ComputeThrows(JS) /\ UNCHANGED <<histVars, mapVars>>

SpecComputeFails == Init /\ [][NextComputeFails]_vars

\* SpecErrors: SpecComputed with reads of atoms from the top level of the JS program
\* and with subscribers.
NextErrors ==
  \/ NextComputed
  \/ \E k \in Keys : AtJs(JS) /\ getAtomValue(JS, k) /\ UNCHANGED <<histVars, mapVars>>
  \/ \E k \in Keys : AtJs(JS) /\ IdsBelow(k, MaxSubs) /\ subscribeAtom(JS, k) /\ UNCHANGED <<histVars, mapVars>>
  \/ NotifyCallJs(JS) /\ UNCHANGED <<histVars, mapVars>>
  \/ CallbackReturn(JS) /\ UNCHANGED <<histVars, mapVars>>

SpecErrors == Init /\ [][NextErrors]_vars

\* SpecSubscriptions: the JS thread alone, no batch; up to MaxIds subscriptions per
\* atom, and the unsubscribe functions the JS side keeps.
NextSubscriptions ==
  \/ \E k \in Keys : AtJs(JS) /\ createAtom(JS, k, "v1") /\ UNCHANGED <<histVars, mapVars>>
  \/ \E k \in Keys : AtJs(JS) /\ IdsBelow(k, MaxIds) /\ subscribeAtom(JS, k) /\ UNCHANGED <<histVars, mapVars>>
  \/ \E h \in handles : AtJs(JS) /\ unsubscribe(JS, h) /\ UNCHANGED <<histVars, mapVars>>
  \/ \E k \in Keys : AtJs(JS) /\ setAtomValue(JS, k, "v2") /\ UNCHANGED <<histVars, mapVars>>
  \/ AtomSet(JS) /\ UNCHANGED <<histVars, mapVars>>
  \/ NotifyCopy(JS) /\ UNCHANGED <<histVars, mapVars>>
  \/ NotifyCallJs(JS) /\ UNCHANGED <<histVars, mapVars>>
  \/ NotifyReturnToSet(JS) /\ UNCHANGED <<histVars, mapVars>>
  \/ CallbackReturn(JS) /\ UNCHANGED <<histVars, mapVars>>
  \/ ReturnToJs(JS) /\ UNCHANGED <<histVars, mapVars>>

SpecSubscriptions == Init /\ [][NextSubscriptions]_vars

\* SpecDelete: the JS thread alone, no batch; atoms are created, deleted and created
\* again, with subscribers and the unsubscribe functions the JS side keeps.
NextDelete ==
  \/ \E k \in Keys, v \in Values : AtJs(JS) /\ createAtom(JS, k, v) /\ UNCHANGED <<histVars, mapVars>>
  \/ \E k \in Keys : AtJs(JS) /\ deleteAtom(JS, k) /\ UNCHANGED <<histVars, mapVars>>
  \/ \E k \in Keys : AtJs(JS) /\ hasAtom(JS, k) /\ UNCHANGED <<histVars, mapVars>>
  \/ \E k \in Keys : AtJs(JS) /\ getAtomValue(JS, k) /\ UNCHANGED <<histVars, mapVars>>
  \/ \E k \in Keys, v \in Values : AtJs(JS) /\ setAtomValue(JS, k, v) /\ UNCHANGED <<histVars, mapVars>>
  \/ \E k \in Keys : AtJs(JS) /\ IdsBelow(k, MaxSubs) /\ subscribeAtom(JS, k) /\ UNCHANGED <<histVars, mapVars>>
  \/ \E h \in handles : AtJs(JS) /\ unsubscribe(JS, h) /\ UNCHANGED <<histVars, mapVars>>
  \/ AtomSet(JS) /\ UNCHANGED <<histVars, mapVars>>
  \/ NotifyCopy(JS) /\ UNCHANGED <<histVars, mapVars>>
  \/ NotifyCallJs(JS) /\ UNCHANGED <<histVars, mapVars>>
  \/ NotifyReturnToSet(JS) /\ UNCHANGED <<histVars, mapVars>>
  \/ CallbackReturn(JS) /\ UNCHANGED <<histVars, mapVars>>
  \/ ReturnToJs(JS) /\ UNCHANGED <<histVars, mapVars>>

SpecDelete == Init /\ [][NextDelete]_vars

\* SpecPendingDelete: the JS thread alone; atoms are written inside batches and deleted
\* while the batch is open.  The program creates no atom under a key whose cell is
\* pending, so that a key in the pending set names one cell.
NextPendingDelete ==
  \/ \E k \in Keys :
       /\ AtJs(JS) /\ k \notin pendingNotifications
       /\ createAtom(JS, k, "v1")
       /\ UNCHANGED <<histVars, mapVars>>
  \/ \E k \in Keys : AtJs(JS) /\ IdsBelow(k, 1) /\ subscribeAtom(JS, k) /\ UNCHANGED <<histVars, mapVars>>
  \/ \E k \in Keys : AtJs(JS) /\ deleteAtom(JS, k) /\ UNCHANGED <<histVars, mapVars>>
  \/ \E k \in Keys : AtJs(JS) /\ setAtomValue(JS, k, "v2") /\ UNCHANGED <<histVars, mapVars>>
  \/ AtJs(JS) /\ startBatch(JS) /\ UNCHANGED <<histVars, mapVars>>
  \/ AtJs(JS) /\ batchDepth > 0 /\ endBatch(JS) /\ UNCHANGED <<histVars, mapVars>>
  \/ AtomSet(JS) /\ UNCHANGED <<histVars, mapVars>>
  \/ NotifyCopy(JS) /\ UNCHANGED <<histVars, mapVars>>
  \/ NotifyCallJs(JS) /\ UNCHANGED <<histVars, mapVars>>
  \/ CallbackReturn(JS) /\ UNCHANGED <<histVars, mapVars>>
  \/ NotifyReturnToSet(JS) /\ UNCHANGED <<histVars, mapVars>>
  \/ QueueNotification(JS) /\ UNCHANGED <<histVars, mapVars>>
  \/ /\ Depth(JS) > 0 /\ Top(JS).todo \subseteq DOMAIN atoms
     /\ EndBatchNotify(JS)
     /\ UNCHANGED <<histVars, mapVars>>
  \/ EndBatchNotifyDestroyed(JS) /\ UNCHANGED <<histVars, mapVars>>
  \/ NotifyReturnToEndBatch(JS) /\ UNCHANGED <<histVars, mapVars>>
  \/ EndBatchDone(JS) /\ UNCHANGED <<histVars, mapVars>>
  \/ ReturnToJs(JS) /\ UNCHANGED <<histVars, mapVars>>

SpecPendingDelete == Init /\ [][NextPendingDelete]_vars

\* SpecSetDelete: the threads write and delete atoms with no batch open, in any
\* interleaving; atoms are created and subscribed to while no call is under way, so
\* that the key of a call under way names one cell.
NextSetDelete ==
  \/ \E k \in Keys :
       /\ \A t \in Threads : AtJs(t)
       /\ createAtom(JS, k, "v1")
       /\ UNCHANGED <<histVars, mapVars>>
  \/ \E k \in Keys :
       /\ \A t \in Threads : AtJs(t)
       /\ IdsBelow(k, 1)
       /\ subscribeAtom(JS, k)
       /\ UNCHANGED <<histVars, mapVars>>
  \/ \E t \in Threads, k \in Keys : AtJs(t) /\ setAtomValue(t, k, "v2") /\ UNCHANGED <<histVars, mapVars>>
  \/ \E t \in Threads, k \in Keys : AtJs(t) /\ deleteAtom(t, k) /\ UNCHANGED <<histVars, mapVars>>
  \/ \E t \in Threads :
       Depth(t) > 0 /\ Top(t).key \in DOMAIN atoms /\ AtomSet(t) /\ UNCHANGED <<histVars, mapVars>>
  \/ \E t \in Threads :
       Depth(t) > 0 /\ Top(t).key \in DOMAIN atoms /\ NotifyCopy(t) /\ UNCHANGED <<histVars, mapVars>>
  \/ \E t \in Threads : OnDestroyedCell(t) /\ UNCHANGED <<histVars, mapVars>>
  \/ \E t \in Threads : NotifyCallJs(t) /\ UNCHANGED <<histVars, mapVars>>
  \/ \E t \in Threads : CallbackReturn(t) /\ UNCHANGED <<histVars, mapVars>>
  \/ \E t \in Threads : NotifyReturnToSet(t) /\ UNCHANGED <<histVars, mapVars>>
  \/ \E t \in Threads : ReturnToJs(t) /\ UNCHANGED <<histVars, mapVars>>

SpecSetDelete == Init /\ [][NextSetDelete]_vars

\* SpecKeys: the JS thread alone; atoms and computed are created and deleted, and the
\* registry is asked for its keys.
NextKeys ==
  \/ \E k \in Keys : AtJs(JS) /\ createAtom(JS, k, "v1") /\ UNCHANGED <<histVars, mapVars>>
  \/ \E k \in Keys : AtJs(JS) /\ deleteAtom(JS, k) /\ UNCHANGED <<histVars, mapVars>>
  \/ \E k \in Keys : AtJs(JS) /\ hasAtom(JS, k) /\ UNCHANGED <<histVars, mapVars>>
  \/ AtJs(JS) /\ getAtomKeys(JS) /\ UNCHANGED <<histVars, mapVars>>
  \/ \E c \in CKeys, deps \in DepLists :
       AtJs(JS) /\ createComputed(JS, c, deps, <<>>) /\ UNCHANGED <<histVars, mapVars>>
  \/ \E c \in CKeys : AtJs(JS) /\ deleteComputed(JS, c) /\ UNCHANGED <<histVars, mapVars>>
  \/ ReturnToJs(JS) /\ UNCHANGED <<histVars, mapVars>>

SpecKeys == Init /\ [][NextKeys]_vars

\* SpecTeardown: the JS thread alone, no batch; atoms are created, deleted and created
\* again, with subscribers and with computed that are created, read and deleted; the
\* compute functions read no atom.
NextTeardown ==
  \/ \E k \in Keys : AtJs(JS) /\ createAtom(JS, k, "v1") /\ UNCHANGED <<histVars, mapVars>>
  \/ \E k \in Keys : AtJs(JS) /\ deleteAtom(JS, k) /\ UNCHANGED <<histVars, mapVars>>
  \/ \E k \in Keys : AtJs(JS) /\ IdsBelow(k, MaxSubs) /\ subscribeAtom(JS, k) /\ UNCHANGED <<histVars, mapVars>>
  \/ \E k \in Keys : AtJs(JS) /\ setAtomValue(JS, k, "v2") /\ UNCHANGED <<histVars, mapVars>>
  \/ \E c \in CKeys, deps \in DepLists :
       AtJs(JS) /\ createComputed(JS, c, deps, <<>>) /\ UNCHANGED <<histVars, mapVars>>
  \/ \E c \in CKeys : AtJs(JS) /\ getComputedValue(JS, c) /\ UNCHANGED <<histVars, mapVars>>
  \/ \E c \in CKeys : AtJs(JS) /\ deleteComputed(JS, c) /\ UNCHANGED <<histVars, mapVars>>
  \/ ComputeReturn(JS) /\ UNCHANGED <<histVars, mapVars>>
  \/ AtomSet(JS) /\ UNCHANGED <<histVars, mapVars>>
  \/ NotifyCopy(JS) /\ UNCHANGED <<histVars, mapVars>>
  \/ NotifyCallJs(JS) /\ UNCHANGED <<histVars, mapVars>>
  \/ NotifyCallMarkDirty(JS) /\ UNCHANGED <<histVars, mapVars>>
  \/ NotifyReturnToSet(JS) /\ UNCHANGED <<histVars, mapVars>>
  \/ CallbackReturn(JS) /\ UNCHANGED <<histVars, mapVars>>
  \/ ReturnToJs(JS) /\ UNCHANGED <<histVars, mapVars>>

SpecTeardown == Init /\ [][NextTeardown]_vars

\* SpecValues: the JS thread alone; atoms of values of every kind, written and read
\* with and without a batch open; no subscribers.
NextValues ==
  \/ \E k \in Keys, v \in JsValues : AtJs(JS) /\ createAtom(JS, k, v) /\ UNCHANGED <<histVars, mapVars>>
  \/ \E k \in Keys, v \in JsValues : AtJs(JS) /\ setAtomValue(JS, k, v) /\ UNCHANGED <<histVars, mapVars>>
  \/ \E k \in Keys : AtJs(JS) /\ getAtomValue(JS, k) /\ UNCHANGED <<histVars, mapVars>>
  \/ AtJs(JS) /\ startBatch(JS) /\ UNCHANGED <<histVars, mapVars>>
  \/ AtJs(JS) /\ endBatch(JS) /\ UNCHANGED <<histVars, mapVars>>
  \/ AtomSet(JS) /\ UNCHANGED <<histVars, mapVars>>
  \/ QueueNotification(JS) /\ UNCHANGED <<histVars, mapVars>>
  \/ NotifyCopy(JS) /\ UNCHANGED <<histVars, mapVars>>
  \/ NotifyReturnToSet(JS) /\ UNCHANGED <<histVars, mapVars>>
  \/ NotifyReturnToEndBatch(JS) /\ UNCHANGED <<histVars, mapVars>>
  \/ EndBatchNotify(JS) /\ UNCHANGED <<histVars, mapVars>>
  \/ EndBatchDone(JS) /\ UNCHANGED <<histVars, mapVars>>
  \/ ReturnToJs(JS) /\ UNCHANGED <<histVars, mapVars>>

SpecValues == Init /\ [][NextValues]_vars

\* The value of the i-th write of thread t: every write stores a value of its own.
WriteVal(t, i) == t \o "#" \o ToString(i)

RECURSIVE SumOver(_, _)
SumOver(f, S) ==
  IF S = {} THEN 0 ELSE LET x == CHOOSE y \in S : TRUE IN f[x] + SumOver(f, S \ {x})
TotalBegun == SumOver(begun, Threads)

\* SpecWriters: several threads write atom "a" with no batch open, MaxWrites times
\* each; the atom is created and its subscribers subscribe before the first write.
NextWriters ==
  \/ \E v \in Values : AtJs(JS) /\ createAtom(JS, "a", v) /\ UNCHANGED <<histVars, mapVars>>
  \/ \E t \in Threads :
       /\ AtJs(t) /\ TotalBegun = 0
       /\ IdsBelow("a", MaxSubs)
       /\ subscribeAtom(t, "a")
       /\ UNCHANGED <<histVars, mapVars>>
  \/ \E t \in Threads :
       /\ AtJs(t) /\ begun[t] < MaxWrites
       /\ "a" \in DOMAIN atoms
       /\ setAtomValue(t, "a", WriteVal(t, begun[t] + 1))
       /\ begun' = [begun EXCEPT ![t] = @ + 1]
       /\ UNCHANGED <<delivered, fresh, mapVars>>
  \/ \E t \in Threads : AtomSet(t) /\ UNCHANGED <<histVars, mapVars>>
  \/ \E t \in Threads : NotifyCopy(t) /\ UNCHANGED <<histVars, mapVars>>
  \/ \E t \in Threads :
       /\ NotifyCallJs(t)
       /\ delivered' = [delivered EXCEPT ![Head(Top(t).cbs)[2]][Head(Top(t).cbs)[3]] = @ + 1]
       /\ UNCHANGED <<begun, fresh, mapVars>>
  \/ \E t \in Threads : NotifyReturnToSet(t) /\ UNCHANGED <<histVars, mapVars>>
  \/ \E t \in Threads : CallbackReturn(t) /\ UNCHANGED <<histVars, mapVars>>
  \/ \E t \in Threads : ReturnToJs(t) /\ UNCHANGED <<histVars, mapVars>>

SpecWriters == Init /\ [][NextWriters]_vars

\* SpecBatchWriters: SpecWriters with a batch open.  Thread JS opens and closes the
\* batches while no call is under way; every thread writes atom "a" only while a batch
\* is open.  The history variable delivered is 1 for a subscriber from the store of a
\* value in its atom until the next call of its callback, and 0 otherwise.
NextBatchWriters ==
  \/ \E v \in Values : AtJs(JS) /\ createAtom(JS, "a", v) /\ UNCHANGED <<histVars, mapVars>>
  \/ \E t \in Threads :
       /\ AtJs(t) /\ TotalBegun = 0
       /\ IdsBelow("a", MaxSubs)
       /\ subscribeAtom(t, "a")
       /\ UNCHANGED <<histVars, mapVars>>
  \/ (\A t \in Threads : AtJs(t)) /\ startBatch(JS) /\ UNCHANGED <<histVars, mapVars>>
  \/ /\ \A t \in Threads : AtJs(t)
     /\ batchDepth > 0
     /\ endBatch(JS)
     /\ UNCHANGED <<histVars, mapVars>>
  \/ \E t \in Threads :
       /\ AtJs(t) /\ begun[t] < MaxWrites
       /\ batchDepth > 0
       /\ "a" \in DOMAIN atoms
       /\ setAtomValue(t, "a", WriteVal(t, begun[t] + 1))
       /\ begun' = [begun EXCEPT ![t] = @ + 1]
       /\ UNCHANGED <<delivered, fresh, mapVars>>
  \/ \E t \in Threads :
       /\ AtomSet(t)
       /\ delivered' = [delivered EXCEPT ![Top(t).key] =
                          [i \in 0..(MaxSubs - 1) |->
                             IF i < atoms[Top(t).key].nextId THEN 1 ELSE @[i]]]
       /\ UNCHANGED <<begun, fresh, mapVars>>
  \/ \E t \in Threads : NotifyCopy(t) /\ UNCHANGED <<histVars, mapVars>>
  \/ \E t \in Threads :
       /\ NotifyCallJs(t)
       /\ delivered' = [delivered EXCEPT ![Head(Top(t).cbs)[2]][Head(Top(t).cbs)[3]] = 0]
       /\ UNCHANGED <<begun, fresh, mapVars>>
  \/ \E t \in Threads : CallbackReturn(t) /\ UNCHANGED <<histVars, mapVars>>
  \/ \E t \in Threads : NotifyReturnToSet(t) /\ UNCHANGED <<histVars, mapVars>>
  \/ \E t \in Threads : QueueNotification(t) /\ UNCHANGED <<histVars, mapVars>>
  \/ EndBatchNotify(JS) /\ UNCHANGED <<histVars, mapVars>>
  \/ NotifyReturnToEndBatch(JS) /\ UNCHANGED <<histVars, mapVars>>
  \/ EndBatchDone(JS) /\ UNCHANGED <<histVars, mapVars>>
  \/ \E t \in Threads : ReturnToJs(t) /\ UNCHANGED <<histVars, mapVars>>

SpecBatchWriters == Init /\ [][NextBatchWriters]_vars

\* SpecBatchThreads: every thread opens and closes batches and writes atom "a", in any
\* interleaving; the atom is created and subscribed to before the first of these calls.
NextBatchThreads ==
  \/ /\ \A t \in Threads : AtJs(t)
     /\ batchDepth = 0
     /\ createAtom(JS, "a", "v1")
     /\ UNCHANGED <<histVars, mapVars>>
  \/ /\ \A t \in Threads : AtJs(t)
     /\ batchDepth = 0
     /\ IdsBelow("a", 1)
     /\ subscribeAtom(JS, "a")
     /\ UNCHANGED <<histVars, mapVars>>
  \/ \E t \in Threads : AtJs(t) /\ startBatch(t) /\ UNCHANGED <<histVars, mapVars>>
  \/ \E t \in Threads : AtJs(t) /\ endBatch(t) /\ UNCHANGED <<histVars, mapVars>>
  \/ \E t \in Threads :
       /\ AtJs(t) /\ "a" \in DOMAIN atoms
       /\ setAtomValue(t, "a", "v2")
       /\ UNCHANGED <<histVars, mapVars>>
  \/ \E t \in Threads : AtomSet(t) /\ UNCHANGED <<histVars, mapVars>>
  \/ \E t \in Threads : NotifyCopy(t) /\ UNCHANGED <<histVars, mapVars>>
  \/ \E t \in Threads : NotifyCallJs(t) /\ UNCHANGED <<histVars, mapVars>>
  \/ \E t \in Threads : CallbackReturn(t) /\ UNCHANGED <<histVars, mapVars>>
  \/ \E t \in Threads : NotifyReturnToSet(t) /\ UNCHANGED <<histVars, mapVars>>
  \/ \E t \in Threads : QueueNotification(t) /\ UNCHANGED <<histVars, mapVars>>
  \/ \E t \in Threads : EndBatchNotify(t) /\ UNCHANGED <<histVars, mapVars>>
  \/ \E t \in Threads : NotifyReturnToEndBatch(t) /\ UNCHANGED <<histVars, mapVars>>
  \/ \E t \in Threads : EndBatchDone(t) /\ UNCHANGED <<histVars, mapVars>>
  \/ \E t \in Threads : ReturnToJs(t) /\ UNCHANGED <<histVars, mapVars>>

SpecBatchThreads == Init /\ [][NextBatchThreads]_vars

\* SpecThreads: every thread calls createAtom, getAtomValue, setAtomValue,
\* subscribeAtom, unsubscribe, deleteComputed, getComputedValue, startBatch and
\* endBatch on the atoms and computed that exist, in any interleaving.  Subscriber
\* callbacks and compute functions do not call the store.  A computed is created while
\* no call is under way, so that a markDirty callback in a copy of notify() names one
\* ComputedCore.  A call under way goes on being scheduled: each thread's steps are
\* weakly fair; the JS program is free not to make another call.
ThreadCalls(t) ==
  \/ createAtom(t, "a", "v1")
  \/ \E k \in DOMAIN atoms : getAtomValue(t, k)
  \/ \E k \in DOMAIN atoms : setAtomValue(t, k, "v2")
  \/ \E k \in DOMAIN atoms : atoms[k].nextId < MaxSubs /\ subscribeAtom(t, k)
  \/ \E h \in handles : unsubscribe(t, h)
  \/ \E c \in DOMAIN computed : deleteComputed(t, c)
  \/ \E c \in DOMAIN computed : getComputedValue(t, c)
  \/ startBatch(t)
  \/ endBatch(t)

ThreadSteps(t) ==
  \/ AtomSet(t)
  \/ NotifyCopy(t)
  \/ NotifyCallJs(t)
  \/ CallbackReturn(t)
  \/ NotifyCallMarkDirty(t)
  \/ NotifyCallMarkDirtyDestroyed(t)
  \/ NotifyReturnToSet(t)
  \/ QueueNotification(t)
  \/ EndBatchNotify(t)
  \/ NotifyReturnToEndBatch(t)
  \/ EndBatchDone(t)
  \/ ComputeReturn(t)
  \/ ReturnToJs(t)

NextThreads ==
  \/ /\ \A t \in Threads : AtJs(t)
     /\ createComputed(JS, "c", <<"a">>, <<>>)
     /\ UNCHANGED <<histVars, mapVars>>
  \/ \E t \in Threads : AtJs(t) /\ ThreadCalls(t) /\ UNCHANGED <<histVars, mapVars>>
  \/ \E t \in Threads : ThreadSteps(t) /\ UNCHANGED <<histVars, mapVars>>

SpecThreads ==
  /\ Init /\ [][NextThreads]_vars
  /\ \A t \in Threads : WF_vars(ThreadSteps(t) /\ UNCHANGED <<histVars, mapVars>>)

\* ------------------------------------------------------------ properties
\* The set of the elements of a sequence.
Range(s) == {s[i] : i \in 1..Len(s)}
\* The frames of thread t from the bottom of its stack.
Frames(t) == {stack[t][i] : i \in 1..Depth(t)}
\* The call of the store (setAtomValue or endBatch) whose notify() invoked the callback
\* at position i of the stack of thread t.
Notifier(t, i) == stack[t][i - 2]

\* C1 (Spec): a setAtomValue made with no batch open that has returned has invoked
\* the callbacks subscribed to the atom when it was called, once each, in the order of
\* their subscription.
C1_UnbatchedSetInvokesEachSubscriberOnceInOrder ==
  \A t \in Threads : \A f \in Frames(t) :
    (f.op = "setAtomValue" /\ ~f.batching /\ f.pc = "ret" /\ f.res = "ok") => f.inv = f.snap

\* C1, its case: an unbatched setAtomValue on an atom with two subscribers has returned.
C1_Witness ==
  \E f \in Frames(JS) :
    /\ f.op = "setAtomValue" /\ ~f.batching /\ f.pc = "ret" /\ f.res = "ok"
    /\ Len(f.snap) = 2 /\ f.inv = f.snap

\* C2 (Spec), as the specification states it: while a batch is open (depth > 0) no
\* subscriber callback runs.
C2_NoCallbackWhileBatchOpen ==
  batchDepth > 0 => \A t \in Threads : \A f \in Frames(t) : f.op # "callback"

\* C3 (Spec), as the specification states it: the endBatch that took the depth from 1
\* to 0 has, when it returns, invoked every subscriber of every atom of the pending set
\* it took.
C3_FlushInvokesSubscribersOfEveryWrittenAtom ==
  \A t \in Threads : \A f \in Frames(t) :
    (f.op = "endBatch" /\ f.pc = "ret" /\ f.res = "ok" /\ f.flushed) =>
      \A k \in f.snap : k \in DOMAIN atoms =>
        Range(Callbacks(atoms[k].subscribers)) \subseteq Range(f.inv)

\* C4 (SpecBatch), as the specification states it: the callbacks of one batch are
\* invoked by endBatch, not by the setAtomValue calls of the batch, and each at most
\* once for the batch.
C4_BatchedWritesCollapseIntoOneNotification ==
  /\ \A k \in Keys : \A id \in 0..(MaxSubs - 1) : delivered[k][id] <= 1
  /\ \A t \in Threads : \A i \in 1..Depth(t) :
       stack[t][i].op = "callback" =>
         ~(Notifier(t, i).op = "setAtomValue" /\ Notifier(t, i).batching)

\* The step calls notify(): thread t pushes a frame of notify().
CallsNotify(t) ==
  /\ Len(stack'[t]) = Len(stack[t]) + 1
  /\ stack'[t][Len(stack'[t])].op = "notify"

\* C5 (Spec): startBatch only adds one to the depth; endBatch takes one from it and,
\* if the depth was 1, takes the whole pending set and leaves it empty, else takes
\* nothing; notify() is called by endBatch only on the cells it took, outside the
\* BatchManager lock, and endBatch returns once it has called it on each of them.
C5_FlushIffDepthGoesFromOneToZero ==
  [][/\ batchDepth' > batchDepth =>
          /\ batchDepth' = batchDepth + 1
          /\ pendingNotifications' = pendingNotifications
          /\ \A t \in Threads : ~CallsNotify(t)
     /\ batchDepth' < batchDepth =>
          /\ batchDepth' = batchDepth - 1
          /\ pendingNotifications' = IF batchDepth = 1 THEN {} ELSE pendingNotifications
          /\ \A t \in Threads : ~CallsNotify(t)
          /\ \E t \in Threads :
               /\ Len(stack'[t]) = Len(stack[t]) + 1
               /\ stack'[t][Len(stack'[t])].op = "endBatch"
               /\ stack'[t][Len(stack'[t])].todo =
                    IF batchDepth = 1 THEN pendingNotifications ELSE {}
     /\ \A t \in Threads :
          (Depth(t) > 0 /\ Top(t).op = "endBatch" /\ CallsNotify(t)) =>
             /\ Top(t).val = 1
             /\ stack'[t][Len(stack'[t])].key \in Top(t).todo
             /\ stack'[t][Len(stack[t])].todo = Top(t).todo \ {stack'[t][Len(stack'[t])].key}
             /\ BatchLock \notin held[t]
     /\ \A t \in Threads :
          (Running(t, "endBatch", "loop") /\ Len(stack'[t]) = Len(stack[t])
             /\ stack'[t][Len(stack'[t])].pc = "ret") => Top(t).todo = {}
    ]_vars

\* C5, its case: an endBatch that took the depth from 1 to 0 and a pending set of two
\* cells has returned.
C5_Witness ==
  \E f \in Frames(JS) :
    /\ f.op = "endBatch" /\ f.pc = "ret" /\ f.res = "ok"
    /\ f.val = 1 /\ f.flushed /\ Cardinality(f.snap) = 2 /\ f.todo = {}
    /\ batchDepth = 0 /\ pendingNotifications = {}

\* The keys of the atoms a computed depends on.
DependencyKeys(c) == [i \in 1..Len(c.dependencies) |-> c.dependencies[i][1]]

\* The values the compute function of computed c reads now.
CurrentReads(c) == [i \in 1..Len(computeFns[c]) |-> atoms[computeFns[c][i]].value]

\* C6 (SpecComputed), as the specification states it, for a compute function that
\* reads the dependencies of its computed: a getComputedValue that follows a write to
\* a dependency runs the compute function once, is not stopped in it, and returns the
\* value computed from the current values of the dependencies.
C6_ReadAfterWriteRecomputesOnce ==
  \A t \in Threads : \A i \in 1..Depth(t) :
    (/\ stack[t][i].op = "getComputedValue" /\ stack[t][i].was = "stale"
     /\ computeFns[stack[t][i].key] = DependencyKeys(computed[stack[t][i].key])) =>
      /\ stack[t][i].ncomp = 1
      /\ \A j \in i..Depth(t) : stack[t][j].pc # "deadlock"
      /\ stack[t][i].pc = "ret" =>
           /\ stack[t][i].res = "ok"
           /\ stack[t][i].out = CurrentReads(stack[t][i].key)

C8_ComputeRunsWithNoLockHeld ==
  \A t \in Threads : \A i \in 1..Depth(t) :
    stack[t][i].op = "compute" =>
      /\ held[t] = {}
      /\ \A j \in i..Depth(t) : stack[t][j].pc # "deadlock" /\ stack[t][j].res # "system_error"

\* C9 (SpecReentrant): while a subscriber callback runs its thread owns no lock of
\* the store, and no call the callback makes (getAtomValue, setAtomValue,
\* subscribeAtom, an unsubscribe function, startBatch, endBatch) stops on a lock its
\* thread owns.
C9_CallbacksRunWithNoLockHeld ==
  \A t \in Threads : \A i \in 1..Depth(t) :
    stack[t][i].op = "callback" =>
      /\ held[t] = {}
      /\ \A j \in i..Depth(t) : stack[t][j].pc # "deadlock" /\ stack[t][j].res # "system_error"

\* C9, its case: a callback invoked by setAtomValue has called setAtomValue on the
\* same atom, and that call has invoked the callbacks and returned.
C9_Witness ==
  /\ Depth(JS) = 4
  /\ stack[JS][1].op = "setAtomValue"
  /\ stack[JS][3].op = "callback"
  /\ stack[JS][4].op = "setAtomValue" /\ stack[JS][4].key = stack[JS][3].key
  /\ stack[JS][4].pc = "ret" /\ stack[JS][4].res = "ok" /\ stack[JS][4].inv # <<>>

\* The setAtomValue calls in progress, and those among them that have not stored.
InProgress == Cardinality({t \in Threads : \E f \in Frames(t) : f.op = "setAtomValue"})
NotStored ==
  Cardinality({t \in Threads : \E f \in Frames(t) : f.op = "setAtomValue" /\ f.pc = "set"})
Quiescent == \A t \in Threads : stack[t] = <<>>

\* C10 (SpecWriters): each subscriber of the atom has been invoked once for every
\* write that has returned and at most once for every write made; once every write
\* has returned it has been invoked as many times as writes were made (N*M when all
\* are made).  Once a write has stored, the atom holds the value of one of the writes.
C10_ConcurrentWritesNotifyOncePerWrite ==
  "a" \in DOMAIN atoms =>
    /\ \A i \in 1..Len(atoms["a"].subscribers) :
         LET n == delivered["a"][atoms["a"].subscribers[i].id] IN
         /\ TotalBegun - InProgress <= n
         /\ n <= TotalBegun
         /\ Quiescent => n = TotalBegun
    /\ TotalBegun - NotStored > 0 =>
         \E t \in Threads : \E i \in 1..begun[t] : atoms["a"].value = WriteVal(t, i)

\* C10, its case: every thread has made its MaxWrites writes of an atom with two
\* subscribers and all have returned.
C10_Witness ==
  /\ Quiescent
  /\ "a" \in DOMAIN atoms
  /\ Len(atoms["a"].subscribers) = 2
  /\ \A t \in Threads : begun[t] = MaxWrites
  /\ \A id \in 0..1 : delivered["a"][id] = Cardinality(Threads) * MaxWrites
\* The step is a call of the store by thread t: it pushes the frame of the call.
Calls(t, op) ==
  /\ Len(stack'[t]) = Len(stack[t]) + 1
  /\ stack'[t][Len(stack'[t])].op = op
\* The frame the step leaves on top of the stack of thread t.
NewTop(t) == stack'[t][Len(stack'[t])]

\* C11 (SpecValues), as the specification states it: the stored value of an atom is
\* the one given to the last createAtom or setAtomValue that succeeded, with or without
\* a batch open, and getAtomValue returns the stored value.
C11_RoundTrip ==
  [][/\ \A t \in Threads :
          /\ (Calls(t, "createAtom") /\ NewTop(t).res = "ok") =>
               atoms'[NewTop(t).key].value = NewTop(t).val
          /\ (Running(t, "setAtomValue", "set") /\ stack'[t] # stack[t]) =>
               atoms'[Top(t).key].value = Top(t).val
          /\ (Calls(t, "getAtomValue") /\ NewTop(t).res = "ok") =>
               NewTop(t).out = atoms[NewTop(t).key].value
     /\ (\A t \in Threads : ~Running(t, "setAtomValue", "set")) =>
          \A k \in DOMAIN atoms \cap DOMAIN atoms' : atoms'[k].value = atoms[k].value
    ]_vars

\* C12 (SpecErrors): a call from the top level of the JS program fails with
\* AlreadyExists if it is createAtom on a key that names an atom, and with NotFound if
\* it is getAtomValue, setAtomValue or subscribeAtom on a key that names no atom, or
\* getComputedValue on a key that names no computed; a call that fails so has changed
\* neither registry, atoms, computed, compute functions, batch depth nor pending set.
C12_FailedCallsChangeNothing ==
  [][\A t \in Threads :
       /\ (AtJs(t) /\ Calls(t, "createAtom") /\ NewTop(t).key \in DOMAIN atoms) =>
            NewTop(t).res = "AlreadyExists"
       /\ (/\ AtJs(t)
           /\ Calls(t, "getAtomValue") \/ Calls(t, "setAtomValue") \/ Calls(t, "subscribeAtom")
           /\ NewTop(t).key \notin DOMAIN atoms) =>
            NewTop(t).res = "NotFound"
       /\ (AtJs(t) /\ Calls(t, "getComputedValue") /\ NewTop(t).key \notin DOMAIN computed) =>
            NewTop(t).res = "NotFound"
       /\ (Len(stack'[t]) = Len(stack[t]) + 1 /\ NewTop(t).res \in {"AlreadyExists", "NotFound"}) =>
            /\ NewTop(t).pc = "ret"
            /\ UNCHANGED <<atoms, computed, computeFns, cells, batchDepth, pendingNotifications>>
    ]_vars

\* C12, its case: setAtomValue on a key that names no atom has failed while a batch
\* with a pending cell is open and a computed exists.
C12_Witness ==
  /\ Depth(JS) = 1
  /\ Top(JS).op = "setAtomValue" /\ Top(JS).res = "NotFound"
  /\ batchDepth > 0 /\ pendingNotifications # {}
  /\ computed # EmptyMap

\* C13 (SpecDelete): once deleteAtom(k) has run, k names no atom; while k names no
\* atom, getAtomValue, setAtomValue and subscribeAtom on k fail with NotFound and
\* hasAtom(k) answers false; an atom created again under k starts with no subscribers,
\* and a setAtomValue on it invokes only callbacks subscribed to the cell it wrote,
\* none of those subscribed to a cell deleteAtom destroyed.
C13_DeletedAtomIsGone ==
  \A t \in Threads : \A f \in Frames(t) :
    /\ (f.op = "deleteAtom" /\ f.pc = "ret") => f.key \notin DOMAIN atoms
    /\ (f.op = "hasAtom" /\ f.pc = "ret") => (f.out = "true" <=> f.key \in DOMAIN atoms)
    /\ (f.op \in {"getAtomValue", "setAtomValue", "subscribeAtom"} /\ f.key \notin DOMAIN atoms) =>
         f.res = "NotFound"
    /\ (f.op = "createAtom" /\ f.res = "ok") => atoms[f.key].subscribers = <<>>
    /\ (f.op \in {"setAtomValue", "notify"}) =>
         \A cb \in Range(f.inv) : cb[2] = f.key /\ cb[4] = cells[f.key]

\* C13, its case: an atom had a subscriber, was deleted and created again, got a new
\* subscriber, and a setAtomValue on it has returned after invoking that one.
C13_Witness ==
  /\ Depth(JS) = 1
  /\ Top(JS).op = "setAtomValue" /\ Top(JS).pc = "ret" /\ Top(JS).res = "ok"
  /\ Top(JS).inv # <<>>
  /\ cells[Top(JS).key] = 2
  /\ \E h \in handles : h[1] = <<Top(JS).key, 1>>

\* C14 (SpecDelete): an unsubscribe function invoked when deleteAtom has destroyed the
\* cell it was made for does nothing: it does not end the program in an access to the
\* destroyed cell, and it leaves every atom, with its subscribers, as it was.
C14_UnsubscribeAfterDeleteIsNoOp ==
  [][\A t \in Threads :
       (Calls(t, "unsubscribe") /\ ~Live(NewTop(t).atom)) =>
         /\ NewTop(t).pc = "ret" /\ NewTop(t).res = "ok"
         /\ atoms' = atoms
    ]_vars

\* The place of x in the sequence s.
Position(s, x) == CHOOSE i \in 1..Len(s) : s[i] = x
\* The sequence new holds elements of old, each once, in the order they have in old.
SameOrder(new, old) ==
  \A i, j \in 1..Len(new) :
    /\ new[i] \in Range(old)
    /\ i < j => Position(old, new[i]) < Position(old, new[j])

\* C15 (SpecSubscriptions): invoking an unsubscribe function while its atom exists
\* raises no error and removes from the atom's subscribers the callback subscribed by
\* the subscribeAtom that returned it and nothing else: the others stay, in their
\* order, every other atom stays as it was, and if that callback is gone already the
\* store stays as it was.  subscribeAtom appends its callback under an id that no
\* unsubscribe function made for the atom holds.
C15_UnsubscribeRemovesItsOwnRegistration ==
  [][\A t \in Threads :
       /\ (Calls(t, "unsubscribe") /\ Live(NewTop(t).atom)) =>
            LET k   == NewTop(t).key
                own == JsCallback(NewTop(t).atom, NewTop(t).val)
                old == atoms[k].subscribers
                new == atoms'[k].subscribers
            IN /\ NewTop(t).res = "ok"
               /\ DOMAIN atoms' = DOMAIN atoms
               /\ \A j \in DOMAIN atoms \ {k} : atoms'[j] = atoms[j]
               /\ [atoms'[k] EXCEPT !.subscribers = old] = atoms[k]
               /\ Range(new) = {e \in Range(old) : e.cb # own}
               /\ Len(new) = Cardinality(Range(new))
               /\ SameOrder(new, old)
               /\ (own \notin Range(Callbacks(old))) => atoms' = atoms
       /\ (Calls(t, "subscribeAtom") /\ NewTop(t).res = "ok") =>
            LET k  == NewTop(t).key
                id == NewTop(t).val
            IN /\ \A h \in handles : h[1] = Cell(k) => h[2] # id
               /\ atoms'[k].subscribers =
                    Append(atoms[k].subscribers, [id |-> id, cb |-> JsCallback(Cell(k), id)])
    ]_vars

\* C15, its case: of three subscribers of an atom the first has been unsubscribed, and
\* the second and the third remain.
C15_Witness ==
  /\ Depth(JS) = 1
  /\ Top(JS).op = "unsubscribe" /\ Top(JS).val = 0
  /\ Top(JS).key \in DOMAIN atoms
  /\ Len(atoms[Top(JS).key].subscribers) = 2
  /\ atoms[Top(JS).key].subscribers[1].id = 1
  /\ atoms[Top(JS).key].subscribers[2].id = 2

\* C16 (Spec): the batch depth is never below 0, whatever startBatch and endBatch
\* calls were made, and when a startBatch has returned a batch is open (isBatching()).
C16_DepthNeverNegative ==
  /\ batchDepth >= 0
  /\ \A t \in Threads :
       (Depth(t) = 1 /\ Top(t).op = "startBatch" /\ Top(t).res = "ok") => batchDepth > 0

\* C17 (SpecTeardown): no computed holds, among its dependencies, a cell that
\* deleteAtom has destroyed, and no getComputedValue or deleteComputed ends in an
\* access to a destroyed cell.
C17_NoComputedRetainsDestroyedCell ==
  /\ \A c \in DOMAIN computed : \A p \in Range(computed[c].dependencies) : Live(p)
  /\ \A t \in Threads : \A f \in Frames(t) :
       f.op \in {"getComputedValue", "deleteComputed"} => f.pc # "crash"

\* The subscribers of a list that are not the callbacks addDependency installed for
\* the computed c.
WithoutComputed(subs, c) == SelectSeq(subs, LAMBDA e : ~(e.cb[1] = "markDirty" /\ e.cb[2] = c))

\* C18 (SpecTeardown): deleteComputed(c) on a computed that exists returns normally; it
\* leaves no computed and no compute function under c, the atoms that existed, and in
\* the subscribers of each atom what was there but for the callbacks installed for c,
\* in the same order.  getComputedValue(c) fails with NotFound while c names no
\* computed.
C18_DeleteComputedUnsubscribes ==
  [][\A t \in Threads :
       /\ (Calls(t, "deleteComputed") /\ NewTop(t).key \in DOMAIN computed) =>
            LET c == NewTop(t).key
            IN /\ NewTop(t).pc = "ret" /\ NewTop(t).res = "ok"
               /\ c \notin DOMAIN computed' /\ c \notin DOMAIN computeFns'
               /\ DOMAIN atoms' = DOMAIN atoms
               /\ \A k \in DOMAIN atoms :
                    atoms'[k] = [atoms[k] EXCEPT !.subscribers = WithoutComputed(@, c)]
       /\ (Calls(t, "getComputedValue") /\ NewTop(t).key \notin DOMAIN computed) =>
            NewTop(t).res = "NotFound"
    ]_vars

\* C19 (SpecComputed): createComputed from the top level of the JS program on a key
\* that names a computed fails with AlreadyExists, and leaves as they were that
\* computed (cache, dirty flag, dependencies and subscription ids), the compute
\* functions, and every atom with its subscribers.
C19_CreateComputedOnTakenKeyChangesNothing ==
  [][\A t \in Threads :
       (AtJs(t) /\ Calls(t, "createComputed") /\ NewTop(t).key \in DOMAIN computed) =>
         /\ NewTop(t).res = "AlreadyExists" /\ NewTop(t).pc = "ret"
         /\ UNCHANGED <<atoms, computed, computeFns>>
    ]_vars

\* C19, its case: createComputed has failed on the key of a computed that has a cached
\* value and a dependency, with dependency keys of which one names an atom; the
\* compute function kept is not the one a call with these keys is made with.
C19_Witness ==
  /\ Depth(JS) = 1
  /\ Top(JS).op = "createComputed" /\ Top(JS).res = "AlreadyExists"
  /\ computed[Top(JS).key].cachedValue.some
  /\ ~computed[Top(JS).key].dirty
  /\ computed[Top(JS).key].dependencies # <<>>
  /\ \E i \in 1..Len(Top(JS).snap) : Top(JS).snap[i] \in DOMAIN atoms
  /\ DependencyKeys(computed[Top(JS).key]) # Top(JS).snap

\* The number of places of the sequence s that hold x.
Occurrences(s, x) == Cardinality({i \in 1..Len(s) : s[i] = x})

\* C20 (SpecComputed): createComputed from the top level of the JS program on a key
\* that names no computed succeeds whatever the dependency keys; the dependencies of
\* the computed are the cells of the keys given that name an atom, in their order;
\* each such atom gets, after the subscribers it had, one callback of the computed per
\* place it has among the keys, and the other atoms none; no atom appears or changes
\* its value.  When notify() invokes such a callback, the computed it was installed for
\* becomes dirty and nothing else changes: no compute function is called.
C20_SubscribedToTheKnownDependencies ==
  [][\A t \in Threads :
       /\ (AtJs(t) /\ Calls(t, "createComputed") /\ NewTop(t).key \notin DOMAIN computed) =>
            LET c     == NewTop(t).key
                known == SelectSeq(NewTop(t).snap, LAMBDA k : k \in DOMAIN atoms)
            IN /\ NewTop(t).res = "ok" /\ NewTop(t).pc = "ret"
               /\ c \in DOMAIN computed'
               /\ computed'[c].dependencies = [i \in 1..Len(known) |-> Cell(known[i])]
               /\ DOMAIN atoms' = DOMAIN atoms
               /\ \A k \in DOMAIN atoms :
                    /\ atoms'[k].value = atoms[k].value
                    /\ WithoutComputed(atoms'[k].subscribers, c) = atoms[k].subscribers
                    /\ SubSeq(atoms'[k].subscribers, 1, Len(atoms[k].subscribers)) =
                         atoms[k].subscribers
                    /\ Len(atoms'[k].subscribers) =
                         Len(atoms[k].subscribers) + Occurrences(NewTop(t).snap, k)
       /\ (/\ Running(t, "notify", "loop")
           /\ Top(t).cbs # <<>>
           /\ Head(Top(t).cbs)[1] = "markDirty"
           /\ stack'[t] # stack[t]) =>
            /\ Len(stack'[t]) = Len(stack[t])
            /\ computed' = [computed EXCEPT ![Head(Top(t).cbs)[2]] = [@ EXCEPT !.dirty = TRUE]]
            /\ UNCHANGED <<atoms, computeFns>>
    ]_vars

\* C20, its case: a computed has been created with two dependency keys of which one
\* names an atom, and is subscribed to that atom alone.
C20_Witness ==
  /\ Depth(JS) = 1
  /\ Top(JS).op = "createComputed" /\ Top(JS).res = "ok"
  /\ Len(Top(JS).snap) = 2
  /\ Top(JS).snap[1] \notin DOMAIN atoms
  /\ DependencyKeys(computed[Top(JS).key]) = <<Top(JS).snap[2]>>
  /\ Len(atoms[Top(JS).snap[2]].subscribers) = 1

\* C21 (SpecKeys): hasAtom and getAtomKeys change nothing of the store; hasAtom(k)
\* answers true exactly when k names an atom, and a key names an atom from the
\* createAtom that succeeded on it to the next deleteAtom on it, and at no other time;
\* getAtomKeys returns the keys that name an atom, each once, and no key of a computed.
C21_IntrospectionOnly ==
  [][/\ \A t \in Threads :
          /\ Calls(t, "hasAtom") =>
               /\ UNCHANGED <<storeVars, batchVars, handles, held>>
               /\ NewTop(t).out = (IF NewTop(t).key \in DOMAIN atoms THEN "true" ELSE "false")
          /\ Calls(t, "getAtomKeys") =>
               /\ UNCHANGED <<storeVars, batchVars, handles, held>>
               /\ Range(NewTop(t).out) = DOMAIN atoms
               /\ Len(NewTop(t).out) = Cardinality(DOMAIN atoms)
          /\ (Calls(t, "createAtom") /\ NewTop(t).res = "ok") => NewTop(t).key \in DOMAIN atoms'
          /\ Calls(t, "deleteAtom") => NewTop(t).key \notin DOMAIN atoms'
     /\ \A k \in Keys :
          /\ (k \in DOMAIN atoms' /\ k \notin DOMAIN atoms) =>
               \E t \in Threads : /\ Calls(t, "createAtom")
                                  /\ NewTop(t).key = k /\ NewTop(t).res = "ok"
          /\ (k \notin DOMAIN atoms' /\ k \in DOMAIN atoms) =>
               \E t \in Threads : Calls(t, "deleteAtom") /\ NewTop(t).key = k
    ]_vars

\* C21, its case: getAtomKeys has returned the one key that names an atom while
\* another key, created and deleted, names none and a computed exists.
C21_Witness ==
  /\ Depth(JS) = 1
  /\ Top(JS).op = "getAtomKeys" /\ Top(JS).res = "ok"
  /\ Len(Top(JS).out) = 1
  /\ \E k \in Keys : cells[k] > 0 /\ k \notin DOMAIN atoms
  /\ computed # EmptyMap

\* C22 (SpecComputeFails): when a getComputedValue that called the compute function
\* ends with an exception, the step that ends it leaves its thread with no lock, the
\* computed dirty and as it was (cache absent or the old value), and the rest of the
\* store as it was; and a getComputedValue on a dirty computed calls the compute
\* function.
C22_ComputeFailureLeavesComputedDirty ==
  [][\A t \in Threads :
       /\ (/\ Depth(t) >= 2
           /\ stack[t][1].op = "getComputedValue" /\ stack[t][1].pc = "compute"
           /\ Len(stack'[t]) = 1
           /\ stack'[t][1].res # "ok") =>
            /\ stack'[t][1].pc = "ret"
            /\ stack'[t][1].res \in {"js_error", "system_error"}
            /\ held'[t] = {}
            /\ UNCHANGED <<storeVars, batchVars>>
            /\ computed[stack[t][1].key].dirty
       /\ (/\ AtJs(t) /\ stack'[t] # <<>>
           /\ stack'[t][1].op = "getComputedValue"
           /\ stack'[t][1].key \in DOMAIN computed
           /\ computed[stack'[t][1].key].dirty) =>
            /\ Len(stack'[t]) = 2
            /\ stack'[t][2].op = "compute" /\ stack'[t][2].key = stack'[t][1].key
    ]_vars

\* C22, its case: the compute function of a computed that had a cached value and was
\* made dirty by a write has thrown, and getComputedValue has ended with its exception.
C22_Witness ==
  /\ Depth(JS) = 1
  /\ Top(JS).op = "getComputedValue" /\ Top(JS).res = "js_error"
  /\ computed[Top(JS).key].cachedValue.some
  /\ computed[Top(JS).key].dirty
  /\ held[JS] = {}

\* C23 (SpecCallbackFails): when a subscriber callback throws, the step that carries
\* the exception out of setAtomValue or endBatch leaves the thread with no lock and
\* the batch depth as it was, and, out of endBatch, every cell the flush had taken from
\* the pending set and not yet notified in the pending set again.
C23_CallbackFailureKeepsBookkeeping ==
  [][\A t \in Threads :
       (/\ Running(t, "callback", "body")
        /\ Len(stack'[t]) = Depth(t) - 2
        /\ stack'[t][Depth(t) - 2].res = "js_error") =>
         LET api == stack[t][Depth(t) - 2]
         IN /\ api.op \in {"setAtomValue", "endBatch"}
            /\ held'[t] = {}
            /\ batchDepth' = batchDepth
            /\ api.op = "endBatch" => api.todo \subseteq pendingNotifications'
    ]_vars

\* C24 (SpecBatchFn): a batch(callback) that has ended has called startBatch once and
\* then endBatch once and nothing else of the batch manager, whether its callback
\* returned or threw; the batch depth is then the one it found, and one more while its
\* callback runs, also for a batch() called by the callback of another; and if the
\* callback threw, batch() ends with an exception.
C24_BatchIsBalanced ==
  \A t \in Threads :
    /\ InBatchBody(t) => batchDepth = Top(t).val + 1
    /\ Running(t, "batch", "ret") =>
         /\ Top(t).inv = <<"startBatch", "endBatch">>
         /\ batchDepth = Top(t).val
         /\ Top(t).was = "threw" => Top(t).res # "ok"

\* C24, its case: a batch() called by the callback of another batch() has ended after
\* its own callback threw.
C24_Witness ==
  /\ Depth(JS) = 2
  /\ Running(JS, "batch", "ret")
  /\ Top(JS).was = "threw" /\ Top(JS).res = "js_error"
  /\ Top(JS).val = 1 /\ batchDepth = 1

\* C25 (SpecAtomFn): the dependency keys a createComputed made by atom(read) has
\* received hold the key of every atom that read reads through get.
C25_AtomTracksDependencies ==
  \A t \in Threads : \A f \in Frames(t) :
    (f.op = "createComputed" /\ f.res = "ok") => Range(computeFns[f.key]) \subseteq Range(f.snap)

\* C26 (SpecBoth): when a call of the JS program has ended on both stores, it has
\* ended the same way on both (returned, or stopped the program), with the same error
\* or none, the same value returned, and the same callbacks invoked in the same order.
C26_StoresAgree ==
  (/\ Depth(JS) = 1 /\ Top(JS).pc \in Ended
   /\ Depth(MapRun) = 1 /\ Top(MapRun).pc \in Ended) =>
    /\ Top(MapRun).op = Top(JS).op
    /\ Top(MapRun).pc = Top(JS).pc
    /\ Top(MapRun).res = Top(JS).res
    /\ Top(MapRun).out = Top(JS).out
    /\ Top(MapRun).inv = Top(JS).inv

\* C27 (SpecMapBatch): in the map-based store, a setAtomValue made by the callback of
\* batch() calls no subscriber, and the endBatch that batch() makes has called, when
\* it returns, each subscriber of every atom the callback wrote exactly once.
C27_MapBatchNotifiesOnce ==
  \A i \in 2..Depth(JS) :
    stack[JS][i - 1].op = "batch" =>
      LET f == stack[JS][i] IN
      /\ f.op = "setAtomValue" => (f.pc = "ret" /\ f.inv = <<>>)
      /\ (f.op = "endBatch" /\ f.pc = "ret" /\ f.res = "ok") =>
           \A k \in DOMAIN mapStore.atoms_ :
             mapStore.atoms_[k] = "v2" =>
               \A j \in 1..Len(MapCallbacks(mapStore, k)) :
                 Occurrences(f.inv, MapCallbacks(mapStore, k)[j]) = 1

C28_InvalidationDuringRecomputationIsKept ==
  \A t \in Threads \ {JS} :
    (/\ Depth(JS) = 1 /\ Top(JS).op = "setAtomValue"
     /\ Top(JS).pc = "ret" /\ Top(JS).res = "ok"
     /\ Depth(t) = 1 /\ Top(t).op = "getComputedValue" /\ Top(t).pc = "ret"
     /\ Top(t).key \in Dependents(Top(JS).key)) =>
      \/ computed[Top(t).key].dirty
      \/ fresh[Top(t).key] = "valid"

\* C29 (SpecBatchWriters): when the threads have written atom "a" with a batch open
\* and the outermost endBatch has returned, every subscriber of the atom has been
\* called since the last value was stored, so that every write is followed by a call
\* of each subscriber that began after its value was stored.
C29_NoWriteWithoutNotification ==
  (/\ \A t \in Threads : AtJs(t)
   /\ batchDepth = 0
   /\ "a" \in DOMAIN atoms) =>
    \A i \in 0..(atoms["a"].nextId - 1) : delivered["a"][i] = 0

\* C31 (SpecBatchThreads): the step of a setAtomValue that is queueNotification adds
\* the cell to the pending set if the batch depth is above 0, leaves the pending set as
\* it is otherwise, and leaves the depth as it is; whatever the interleaving of the
\* threads, the pending set is empty unless the depth is above 0.
C31_PendingOnlyWhileBatchOpen ==
  /\ [](pendingNotifications # {} => batchDepth > 0)
  /\ [][\A t \in Threads :
          (Running(t, "setAtomValue", "queue") /\ stack'[t] # stack[t]) =>
            /\ batchDepth' = batchDepth
            /\ pendingNotifications' =
                 IF batchDepth > 0 THEN pendingNotifications \cup {Top(t).key}
                 ELSE pendingNotifications]_vars

\* C31, its case: a setAtomValue that found a batch open has gone through
\* queueNotification and returned while the endBatch of another thread, which took the
\* depth from 1 to 0 and found nothing pending, is still under way; nothing is pending.
C31_Witness ==
  \E t \in Threads, u \in Threads :
    /\ t # u
    /\ Depth(t) = 1 /\ Top(t).op = "setAtomValue" /\ Top(t).batching
    /\ Top(t).pc = "ret" /\ Top(t).res = "ok"
    /\ Depth(u) = 1 /\ Top(u).op = "endBatch" /\ Top(u).val = 1 /\ Top(u).snap = {}
    /\ batchDepth = 0
    /\ pendingNotifications = {}

\* C32 (Spec): when a setAtomValue made with no batch open has returned, the atom it
\* wrote is not dirty; when an endBatch that flushed has returned, no atom it took from
\* the pending set is dirty; while a batch is open, between the calls of the program,
\* an atom in the pending set is dirty.
C32_DirtyClearedOnNotify ==
  /\ (Depth(JS) = 1 /\ Top(JS).pc = "ret" /\ Top(JS).res = "ok") =>
       /\ (Top(JS).op = "setAtomValue" /\ ~Top(JS).batching) => ~atoms[Top(JS).key].dirty
       /\ (Top(JS).op = "endBatch" /\ Top(JS).flushed) =>
            \A k \in Top(JS).snap \cap DOMAIN atoms : ~atoms[k].dirty
  /\ (AtJs(JS) /\ batchDepth > 0) =>
       \A k \in pendingNotifications \cap DOMAIN atoms : atoms[k].dirty

\* C33 (SpecMapNest): in the map-based store an endBatch that leaves a startBatch of
\* the program unmatched calls no subscriber and leaves batching on; while a batch is
\* open, between the calls of the program, the atom of every subscriber that is owed a
\* notification is in the pending list; when the endBatch that matches the outermost
\* startBatch has returned, no subscriber is owed a notification.
C33_MapBatchesNest ==
  /\ (Depth(JS) > 0 /\ stack[JS][1].op = "endBatch" /\ begun[JS] > 0) =>
       /\ stack[JS][1].inv = <<>> /\ stack[JS][1].cbs = <<>>
       /\ mapStore.isBatching_
  /\ (AtJs(JS) /\ begun[JS] > 0) =>
       /\ mapStore.isBatching_
       /\ \A k \in Keys, i \in 0..(MaxSubs - 1) :
            delivered[k][i] = 1 =>
              \E j \in 1..Len(mapStore.pendingNotifications_) :
                mapStore.pendingNotifications_[j] = k
  /\ (Depth(JS) = 1 /\ Top(JS).op = "endBatch" /\ Top(JS).pc = "ret" /\ begun[JS] = 0) =>
       \A k \in Keys, i \in 0..(MaxSubs - 1) : delivered[k][i] = 0

\* C34 (SpecMapReentrant): while a subscriber callback of the map-based store runs,
\* from setAtomValue or from endBatch, its thread owns no lock of the store, and the
\* getAtomValue it calls does not stop on a lock its thread owns.
C34_MapCallbacksRunWithNoLockHeld ==
  \A i \in 1..Depth(JS) :
    stack[JS][i].op = "callback" =>
      /\ held[JS] = {}
      /\ \A j \in i..Depth(JS) :
           stack[JS][j].pc # "deadlock" /\ stack[JS][j].res # "system_error"

\* C35 (SpecMapComputed): in the map-based store a createComputed made from the top
\* level of the program does not stop on the mutex and does not fail on it; when a
\* setAtomValue on the dependency "a" of a computed created while the atom existed has
\* returned, the computed has no cached value.
C35_MapCreateComputedSubscribes ==
  /\ \A i \in 1..Depth(JS) :
       stack[JS][i].op = "createComputed" =>
         stack[JS][i].pc # "deadlock" /\ stack[JS][i].res # "system_error"
  /\ (/\ Depth(JS) = 1 /\ Top(JS).op = "setAtomValue" /\ Top(JS).key = "a"
      /\ Top(JS).pc = "ret" /\ Top(JS).res = "ok") =>
       \A c \in CKeys : fresh[c] = "tracked" => c \notin DOMAIN mapStore.computed_

\* C36 (SpecMapComputed): in the map-based store a createComputed on a key that has a
\* registered compute function fails with AlreadyExists and changes nothing of the
\* store, whether the computed has a cached value or not.
C36_MapCreateComputedOnTakenKey ==
  [][\A c \in CKeys :
       (/\ AtJs(JS)
        /\ c \in DOMAIN mapStore.computeFns_
        /\ Len(stack'[JS]) = 1
        /\ stack'[JS][1].op = "createComputed" /\ stack'[JS][1].key = c) =>
         /\ stack'[JS][1].res = "AlreadyExists"
         /\ mapStore' = mapStore]_vars

\* C37 (SpecPendingDelete): every cell in the pending set, and every cell an endBatch
\* has taken from it and not yet notified, is an atom of the registry, and no endBatch
\* has acted on a destroyed cell.
C37_PendingCellsExist ==
  /\ pendingNotifications \subseteq DOMAIN atoms
  /\ \A i \in 1..Depth(JS) :
       stack[JS][i].op = "endBatch" =>
         /\ stack[JS][i].todo \subseteq DOMAIN atoms
         /\ stack[JS][i].pc # "crash"
         /\ stack[JS][i].pc = "ret" => stack[JS][i].snap \subseteq DOMAIN atoms

\* C38 (SpecSetDelete): a setAtomValue that has not failed with NotFound and has not
\* returned works on a cell of the registry, whatever another thread deletes
\* meanwhile, and has not stopped on a destroyed cell.
C38_SetWorksOnExistingCell ==
  \A t \in Threads :
    (/\ Depth(t) > 0 /\ stack[t][1].op = "setAtomValue"
     /\ stack[t][1].res # "NotFound" /\ stack[t][1].pc # "ret") =>
      /\ stack[t][1].key \in DOMAIN atoms
      /\ \A i \in 1..Depth(t) : stack[t][i].pc # "crash"

\* C39 (SpecReentrant): every call of a subscriber callback is the call of a callback
\* that is subscribed to its atom when the call begins: a callback whose unsubscribe
\* function has returned is not called again, not even by the notify() under way.
C39_UnsubscribedIsNotCalled ==
  [][\A t \in Threads :
       (/\ Running(t, "notify", "loop")
        /\ Len(stack'[t]) = Len(stack[t]) + 1
        /\ stack'[t][Len(stack'[t])].op = "callback") =>
         \E j \in 1..Len(atoms[stack'[t][Len(stack'[t])].key].subscribers) :
           atoms[stack'[t][Len(stack'[t])].key].subscribers[j].id = stack'[t][Len(stack'[t])].val]_vars

\* C40: with subscriber callbacks and compute functions that do not call the store,
\* under any interleaving of the calls of several threads on existing cells, no thread
\* holds a cell's lock or the BatchManager lock when it is about to take another lock
\* (only the registry lock is owned outside the block that took it), no call stops in
\* a lock, and every call that has begun returns.
LockOrderKept ==
  \A t \in Threads :
    /\ held[t] \subseteq {RegistryLock}
    /\ \A i \in 1..Depth(t) : stack[t][i].pc # "deadlock" /\ stack[t][i].res # "system_error"

C40_EveryCallReturns ==
  /\ []LockOrderKept
  /\ \A t \in Threads : (Depth(t) > 0) ~> (Depth(t) = 0)

====
